---------------------------- MODULE Spec2Model ----------------------------
(***************************************************************************)
(* Problem-resolution pipeline of the SolvumAi math solver: the solution   *)
(* cache, the model fallback solver, the /api/solve route (server.js and   *)
(* the older server variants part_000 and part_003) and the vision OCR     *)
(* chain extractTextFromImageWithAI.                                       *)
(*                                                                         *)
(* Text is a sequence of one-character strings.  A JavaScript `undefined`  *)
(* is the one-element sequence Undefined, which no text equals.            *)
(***************************************************************************)
EXTENDS Integers, Sequences, FiniteSets, TLC

(***************************************************************************)
(* Bounds of the model.                                                    *)
(***************************************************************************)
NumReq == 1
NumCallers == 2
MaxPieces == 3
NumUploads == 2
NumChecks == 2
NumImageReq == 2
NumCalls == 2
MaxMs == 1
MaxTime == 5400
TickStep == 1800
MaxLen == 3

(***************************************************************************)
(* Program constants.                                                      *)
(***************************************************************************)
stdTTL == 3600
MinTextLength == 2

Undefined == <<"#undefined">>

(***************************************************************************)
(* String.prototype.trim / toLowerCase over the model's alphabet.          *)
(***************************************************************************)
IsWhitespace(c) == c \in {" ", "\n", "\t"}

RECURSIVE TrimStart(_)
TrimStart(s) ==
  IF s = <<>> THEN <<>>
  ELSE IF IsWhitespace(Head(s)) THEN TrimStart(Tail(s)) ELSE s

RECURSIVE TrimEnd(_)
TrimEnd(s) ==
  IF s = <<>> THEN <<>>
  ELSE IF IsWhitespace(s[Len(s)]) THEN TrimEnd(SubSeq(s, 1, Len(s) - 1)) ELSE s

Trim(s) == TrimEnd(TrimStart(s))

UpperLetters == <<"A", "B", "C", "D", "E", "F", "G", "H", "I", "J", "K", "L", "M",
                  "N", "O", "P", "Q", "R", "S", "T", "U", "V", "W", "X", "Y", "Z">>
LowerLetters == <<"a", "b", "c", "d", "e", "f", "g", "h", "i", "j", "k", "l", "m",
                  "n", "o", "p", "q", "r", "s", "t", "u", "v", "w", "x", "y", "z">>

LowerChar(c) ==
  IF \E i \in 1..26 : UpperLetters[i] = c
  THEN LowerLetters[CHOOSE i \in 1..26 : UpperLetters[i] = c]
  ELSE c

ToLowerCase(s) == [i \in 1..Len(s) |-> LowerChar(s[i])]

KeyPrefix == <<"m","a","t","h","_","s","o","l","u","t","i","o","n",":">>

\* getCacheKey, a variant a plausible slip would produce: all whitespace is
\* removed, not only the surrounding whitespace.
RECURSIVE StripAllWhitespace(_)
StripAllWhitespace(s) ==
  IF s = <<>> THEN <<>>
  ELSE IF IsWhitespace(Head(s)) THEN StripAllWhitespace(Tail(s))
       ELSE <<Head(s)>> \o StripAllWhitespace(Tail(s))

getCacheKeyStripAll(problem) == KeyPrefix \o ToLowerCase(StripAllWhitespace(problem))

\* `math_solution:${problem.trim().toLowerCase()}`
getCacheKey(problem) == KeyPrefix \o ToLowerCase(Trim(problem))

(***************************************************************************)
(* The formatting applied to a model answer in solveMathProblem: three     *)
(* global regular-expression replacements, each scanning left to right.    *)
(* A tag the replacement emits is one element of the output sequence.      *)
(***************************************************************************)
TagBlack == "<strong style=\"color:black\">"
TagGreen == "<strong style=\"color:green\">"
TagOpen == "<strong>"
TagClose == "</strong>"
CheckMark == "U+2705"

IsDigit(c) == c \in {"0", "1", "2", "3", "4", "5", "6", "7", "8", "9"}

StartsWithAt(s, i, lit) ==
  /\ i + Len(lit) - 1 <= Len(s)
  /\ SubSeq(s, i, i + Len(lit) - 1) = lit

\* the end of the maximal run of characters satisfying the test from i on
\* (i - 1 when the run is empty)
RECURSIVE DigitRunEnd(_, _)
DigitRunEnd(s, i) ==
  IF i <= Len(s) /\ IsDigit(s[i]) THEN DigitRunEnd(s, i + 1) ELSE i - 1

RECURSIVE SpaceRunEnd(_, _)
SpaceRunEnd(s, i) ==
  IF i <= Len(s) /\ IsWhitespace(s[i]) THEN SpaceRunEnd(s, i + 1) ELSE i - 1

\* (.*?)\*\* from position j: the position of the first "**" at or after j
\* that no line terminator separates from j; 0 when there is none
FirstClose(s, j) ==
  LET C == {k \in j..(Len(s) - 1) :
              /\ s[k] = "*" /\ s[k + 1] = "*"
              /\ \A m \in j..(k - 1) : s[m] # "\n"}
  IN IF C = {} THEN 0 ELSE CHOOSE k \in C : \A k2 \in C : k <= k2

StepLit == <<"*", "*", "S", "t", "e", "p", " ">>
StepOut == <<"S", "t", "e", "p", " ">>

\* /\*\*Step (\d+):\s*(.*?)\*\*/ anchored at i: [end, num, desc], end = 0
\* when there is no match at i
MatchStep(s, i) ==
  LET noMatch == [end |-> 0, num |-> <<>>, desc |-> <<>>]
      d1 == i + Len(StepLit)
      d2 == DigitRunEnd(s, d1)
  IN IF ~StartsWithAt(s, i, StepLit) THEN noMatch
     ELSE IF d2 < d1 THEN noMatch
     ELSE IF ~(d2 + 1 <= Len(s) /\ s[d2 + 1] = ":") THEN noMatch
     ELSE LET w == SpaceRunEnd(s, d2 + 2) + 1
              k == FirstClose(s, w)
          IN IF k = 0 THEN noMatch
             ELSE [end |-> k + 1, num |-> SubSeq(s, d1, d2), desc |-> SubSeq(s, w, k - 1)]

RECURSIVE ReplaceStep(_, _)
ReplaceStep(s, i) ==
  IF i > Len(s) THEN <<>>
  ELSE LET m == MatchStep(s, i)
       IN IF m.end # 0
          THEN <<TagBlack>> \o StepOut \o m.num \o <<":", " ">> \o m.desc \o <<TagClose>>
               \o ReplaceStep(s, m.end + 1)
          ELSE <<s[i]>> \o ReplaceStep(s, i + 1)

FinalLit == <<"*", "*", "F", "i", "n", "a", "l", " ", "A", "n", "s", "w", "e", "r", ":", "*", "*">>
FinalOut == <<"F", "i", "n", "a", "l", " ", "A", "n", "s", "w", "e", "r", ":">>
FinalLitCheck == <<"*", "*", CheckMark, " ">> \o FinalOut \o <<"*", "*">>
FinalOutCheck == <<CheckMark, " ">> \o FinalOut

\* /lit/g -> <strong style="color:green">out</strong>
RECURSIVE ReplaceFinal(_, _, _, _)
ReplaceFinal(s, i, lit, out) ==
  IF i > Len(s) THEN <<>>
  ELSE IF StartsWithAt(s, i, lit)
       THEN <<TagGreen>> \o out \o <<TagClose>> \o ReplaceFinal(s, i + Len(lit), lit, out)
       ELSE <<s[i]>> \o ReplaceFinal(s, i + 1, lit, out)

\* /\*\*(.*?)\*\*/g -> <strong>txt</strong>
RECURSIVE ReplaceBold(_, _)
ReplaceBold(s, i) ==
  IF i > Len(s) THEN <<>>
  ELSE LET k == IF StartsWithAt(s, i, <<"*", "*">>) THEN FirstClose(s, i + 2) ELSE 0
       IN IF k # 0
          THEN <<TagOpen>> \o SubSeq(s, i + 2, k - 1) \o <<TagClose>> \o ReplaceBold(s, k + 2)
          ELSE <<s[i]>> \o ReplaceBold(s, i + 1)

\* the three replacements of server.js (lines 121-128), in order
FormatResult(result) ==
  ReplaceBold(ReplaceFinal(ReplaceStep(result, 1), 1, FinalLit, FinalOut), 1)

\* the three replacements of part_003, whose Final Answer heading carries a
\* check mark (as does the second copy in server.js, lines 686-694)
FormatResultCheck(result) ==
  ReplaceBold(ReplaceFinal(ReplaceStep(result, 1), 1, FinalLitCheck, FinalOutCheck), 1)

(***************************************************************************)
(* The solution cache: new NodeCache({ stdTTL: 3600 }).  An entry carries  *)
(* its value and the time at which it expires; get() drops an entry whose  *)
(* expiry time has passed and answers undefined for it.                    *)
(***************************************************************************)
Truthy(v) == v # Undefined /\ v # <<>>

Expired(entry, t) == entry.t < t

\* cache.get, a variant that never looks at the expiry time
cacheGetNoExpiry(c, key, t) == IF key \in DOMAIN c THEN c[key].v ELSE Undefined

\* cache.get(key): the value returned
cacheGet(c, key, t) ==
  IF key \in DOMAIN c /\ ~Expired(c[key], t) THEN c[key].v ELSE Undefined

\* cache.get(key): the store afterwards (an expired entry is deleted)
cacheAfterGet(c, key, t) ==
  IF key \in DOMAIN c /\ Expired(c[key], t)
  THEN [k \in (DOMAIN c) \ {key} |-> c[k]]
  ELSE c

\* cache.set(key, value), a variant that keeps the entry a key already has
cacheSetKeepExisting(c, key, value, t) ==
  IF key \in DOMAIN c THEN c
  ELSE [k \in (DOMAIN c) \cup {key} |->
          IF k = key THEN [v |-> value, t |-> t + stdTTL] ELSE c[k]]

\* cache.set(key, value)
cacheSet(c, key, value, t) ==
  [k \in (DOMAIN c) \cup {key} |->
     IF k = key THEN [v |-> value, t |-> t + stdTTL] ELSE c[k]]

\* getCachedSolution after solverFn has settled, a variant that stores
\* whatever the solver left behind even when it threw
cacheAfterSolverAlways(c, key, resolved, value, t) == cacheSet(c, key, value, t)

\* getCachedSolution after solverFn has settled: cache.set runs only when
\* the awaited solverFn() resolved
cacheAfterSolver(c, key, resolved, value, t) ==
  IF resolved THEN cacheSet(c, key, value, t) ELSE c

(***************************************************************************)
(* The solver chain.                                                       *)
(***************************************************************************)
models == <<"mistralai/Mixtral-8x7B-Instruct-v0.1", "meta-llama/Llama-3-8b-chat-hf">>

\* the ways one axios.post to a model can fail
FailureKinds == {"timeout", "status", "malformed"}

BoldX == <<"*", "*", "x", "*", "*">>
StepFinal == <<"*", "*", "S", "t", "e", "p", " ", "1", ":", " ", "x", "*", "*", "\n">> \o FinalLit

\* response.data.choices[0].message.content of a 2xx reply; Undefined
\* stands for a message without content
Contents == {Undefined, <<>>, BoldX, StepFinal}

\* req.body.problem
BodyTexts == {Undefined, <<>>, <<" ">>, <<"a">>, <<" ", "A">>}

\* the text an image yields
OcrTexts == {<<>>, <<"a">>}

Req == 1..NumReq

\* the loop of solveMathProblem after models[i] failed, a variant in which
\* the first failure ends the loop
afterFailureAbort(i) == "throw"

\* the loop of solveMathProblem after models[i] failed: the next model is
\* tried, and the loop is left when there is none
afterFailure(i) == IF i < Len(models) THEN "next" ELSE "throw"

\* the for-of loop over models, a variant that tries the same model again
nextModelRetry(i) == i

\* the for-of loop over models: the index of the model tried after models[i]
nextModel(i) == i + 1

\* the formatting, a variant that returns the model answer as it came
formatRaw(v, result) == result

\* what solveMathProblem does with the content tryModel returned
format(v, result) ==
  CASE v = "server" -> FormatResult(result)
    [] v = "part_003" -> FormatResultCheck(result)
    [] OTHER -> result

\* the error solveMathProblem throws when the loop is left without a result
exhaustedError(v, lastError) ==
  IF v = "server"
  THEN (IF lastError # <<>> THEN lastError ELSE <<"All models failed">>)
  ELSE <<"Failed to get solution from any model">>

\* part_000 wraps the solution in parentheses unless it has "(" or "["
wrapSolution(solution) ==
  IF \E i \in 1..Len(solution) : solution[i] \in {"(", "["}
  THEN solution
  ELSE <<"(">> \o solution \o <<")">>

(***************************************************************************)
(* State.                                                                  *)
(***************************************************************************)
VARIABLES
  variant,        \* which server file is running
  now,            \* Date.now(), in seconds
  cache,          \* the NodeCache store: key -> [v, t]
  workerInit,     \* "pending" until the background initializeWorker() settles
  isWorkerReady,  \* server.js: let isWorkerReady = false
  pc,             \* per request: "idle", "ocr", "model", "done"
  body,           \* per request: [problem, image] as received
  problem,        \* per request: the argument of solveMathProblem
  modelIdx,       \* per request: index in models of the call in flight
  lastError,      \* per request: let lastError
  attempts,       \* per request: the settled tryModel calls, [model, outcome, content]
  seen,           \* per request: the entry cache.get found, [looked, present, live, v]
  ocrCalled,      \* per request: whether extractTextFromImage was called
  solved,         \* per request: what solveMathProblem returned or threw
  resp,           \* per request: the HTTP response, [status, error, problem, solution]
  log,            \* logger records of model failures, [req, level, model]
  touched         \* who has read or written which shared variable or file, [res, by]

solveVars == <<variant, now, cache, workerInit, isWorkerReady, pc, body, problem,
               modelIdx, lastError, attempts, seen, ocrCalled, solved, resp, log, touched>>

VARIABLES
  keyPc,          \* key derivation: "input" or "derived"
  textA, textB,   \* key derivation: two problem texts
  keyA, keyB      \* key derivation: getCacheKey of each

keyVars == <<keyPc, textA, textB, keyA, keyB>>

VARIABLES
  vPc,            \* extractTextFromImageWithAI: "idle", "sharp", "vision", "done"
  vImage,         \* imageBuffer.length
  vPlan,          \* what each vision provider answers when it is asked
  vProcessed,     \* processedImage.length
  vIdx,           \* index in visionModels of the call in flight
  vCalls,         \* the providers asked so far, in order
  usedModel,      \* let usedModel = null
  vResult         \* [state, text, error]: returned text or thrown error

visionVars == <<vPc, vImage, vPlan, vProcessed, vIdx, vCalls, usedModel, vResult>>

VARIABLES
  chain,          \* which fallback chain the run exercises
  gPc,            \* part_004 /solve: "idle", "gpt", "wolfram", "newton", "done"
  gAttempts,      \* part_004 /solve: the settled provider calls, [provider, result]
  gResp           \* part_004 /solve: the HTTP response, [status, provider]

chainVars == <<chain, gPc, gAttempts, gResp>>

VARIABLES
  oPc,            \* extractTextFromImage: "idle", "sharp", "recognize", "refine", "done"
  oImage,         \* imageBuffer.length
  oStarted,       \* the operations started on the image so far, in order
  oRaw,           \* rawText
  oPost,          \* postProcessed
  oAi,            \* the AI refinement call: "none", "failed", "ok"
  oResult         \* [state, text, error]: returned text or thrown error

ocrVars == <<oPc, oImage, oStarted, oRaw, oPost, oAi, oResult>>

VARIABLES
  callPc,         \* per getCachedSolution call: "idle", "solver", "done"
  callProblem,    \* per getCachedSolution call: the problem argument
  callResult,     \* per getCachedSolution call: [state, value], what it returned
  lastSet         \* the cache.set that ran last: [by, value, at]

raceVars == <<callPc, callProblem, callResult, lastSet>>

VARIABLES
  client,         \* which client file is running: "script.js" or "part_006"
  fPc,            \* formatSolution: "idle", "input", "once", "twice"
  fSolution,      \* the solution text handed to formatSolution
  fOnce,          \* formatSolution(fSolution)
  fTwice          \* formatSolution(fOnce)

formatVars == <<client, fPc, fSolution, fOnce, fTwice>>

VARIABLES
  uClock,         \* part_003: Date.now(), in milliseconds
  files,          \* part_003: the uploads directory, path -> [owner, enhanced]
  uPc,            \* per image request: "idle", "sharp", "recognize", "refine", "solver", "done"
  uEndpoint,      \* per image request: "solve" or "preview"
  uPath,          \* per image request: tempPath
  uSent,          \* per image request: whose image bytes went to the recognition model
  uRaw,           \* per image request: rawText
  uPost,          \* per image request: postProcessed
  uResp,          \* per image request: the HTTP response
  clobbered       \* the writes and unlinks that hit another request's file, [by, victim, op]

uploadVars == <<uClock, files, uPc, uEndpoint, uPath, uSent, uRaw, uPost, uResp, clobbered>>

VARIABLES
  checkPc,        \* part_000 GET /check, per call: "idle", "awaiting", "done"
  checkResp       \* part_000 GET /check, per call: the HTTP response

checkVars == <<checkPc, checkResp>>

VARIABLES
  wVariant,       \* the server file of the worker machine: "server" or "part_000"
  initPc,         \* server.js: the await initializeWorker() is at, "ready", "failed", or "none"
  ocrWorker,      \* server.js: the module-level ocrWorker, 0 while undefined
  wReady,         \* server.js: isWorkerReady
  workers,        \* the Tesseract workers of the process, [state, createdBy, terminatedBy]
  iPc,            \* per image request: the await its handler is at, "idle" or "done"
  iEndpoint,      \* per image request: "solve" or "preview"
  iWorker,        \* part_000, per image request: the local worker, 0 while undefined
  iStatus,        \* per image request: the status of the error response, 0 without one
  sigPc,          \* the SIGTERM handler: "none", "terminating", "exited"
  recognized      \* the calls of recognize, [req, state of the worker at the call]

workerVars == <<wVariant, initPc, ocrWorker, wReady, workers, iPc, iEndpoint, iWorker,
                iStatus, sigPc, recognized>>

VARIABLES
  zPc,            \* resize on its own: "idle", "input" or "done"
  zSite,          \* the resize call: the function or handler it is in
  zIn,            \* the input image, [width, height] in pixels
  zOut            \* the output image, [width, height] in pixels

resizeVars == <<zPc, zSite, zIn, zOut>>

VARIABLES
  bPc,            \* script.js, per solveProblem call: "idle", "fetch", "text", "json"
  bLast,          \* script.js, per solveProblem call: how the last call ended
  bProblem,       \* problemInput.value
  bFile,          \* imageUpload.files[0] is there
  bReading,       \* the FileReader of handleImageUpload is reading
  bPreview,       \* imagePreview is displayed
  bDisabled,      \* solveBtn.disabled
  bLoader,        \* loader.style.display is 'block'
  bOutput         \* solutionOutput: "empty", "solution" or "error"

browserVars == <<bPc, bLast, bProblem, bFile, bReading, bPreview, bDisabled, bLoader, bOutput>>

vars == <<solveVars, keyVars, visionVars, chainVars, ocrVars, raceVars, formatVars, uploadVars, checkVars, workerVars, resizeVars, browserVars>>

\* what the steps of one part of the program leave alone
exceptSolve == <<keyVars, visionVars, chainVars, ocrVars, raceVars, formatVars, uploadVars, checkVars, workerVars, resizeVars, browserVars>>
exceptKey == <<solveVars, visionVars, chainVars, ocrVars, raceVars, formatVars, uploadVars, checkVars, workerVars, resizeVars, browserVars>>
exceptVision == <<solveVars, keyVars, chainVars, ocrVars, raceVars, formatVars, uploadVars, checkVars, workerVars, resizeVars, browserVars>>
exceptChain == <<solveVars, keyVars, visionVars, ocrVars, raceVars, formatVars, uploadVars, checkVars, workerVars, resizeVars, browserVars>>
exceptOcr == <<keyVars, visionVars, chainVars, raceVars, formatVars, uploadVars, checkVars, workerVars, resizeVars, browserVars>>
exceptFormat == <<solveVars, keyVars, visionVars, chainVars, ocrVars, raceVars, uploadVars, checkVars, workerVars, resizeVars, browserVars>>
exceptRace == <<variant, workerInit, isWorkerReady, pc, body, problem, modelIdx, lastError,
                attempts, seen, ocrCalled, solved, resp, log, touched,
                keyVars, visionVars, chainVars, ocrVars, formatVars, uploadVars, checkVars, workerVars, resizeVars, browserVars>>
exceptUpload == <<solveVars, keyVars, visionVars, chainVars, ocrVars, raceVars, formatVars, checkVars, workerVars, resizeVars, browserVars>>
exceptCheck == <<solveVars, keyVars, visionVars, chainVars, ocrVars, raceVars, formatVars, uploadVars, workerVars, resizeVars, browserVars>>
exceptWorker == <<solveVars, keyVars, visionVars, chainVars, ocrVars, raceVars, formatVars, uploadVars, checkVars, resizeVars, browserVars>>
exceptResize == <<solveVars, keyVars, visionVars, chainVars, ocrVars, raceVars, formatVars, uploadVars, checkVars, workerVars, browserVars>>
exceptBrowser == <<solveVars, keyVars, visionVars, chainVars, ocrVars, raceVars, formatVars, uploadVars, checkVars, workerVars, resizeVars>>

NoResp == [status |-> 0, error |-> <<>>, problem |-> Undefined, solution |-> Undefined]
NoSeen == [looked |-> FALSE, present |-> FALSE, live |-> FALSE, v |-> Undefined]
NoSolved == [state |-> "none", value |-> Undefined, error |-> <<>>]

SolveInit ==
  /\ now = 0
  /\ cache = << >>
  /\ workerInit = "pending"
  /\ isWorkerReady = FALSE
  /\ pc = [r \in Req |-> "idle"]
  /\ body = [r \in Req |-> [problem |-> Undefined, image |-> FALSE]]
  /\ problem = [r \in Req |-> Undefined]
  /\ modelIdx = [r \in Req |-> 0]
  /\ lastError = [r \in Req |-> <<>>]
  /\ attempts = [r \in Req |-> <<>>]
  /\ seen = [r \in Req |-> NoSeen]
  /\ ocrCalled = [r \in Req |-> FALSE]
  /\ solved = [r \in Req |-> NoSolved]
  /\ resp = [r \in Req |-> NoResp]
  /\ log = {}
  /\ touched = {}

\* res.status(status).json({ error })
SendError(r, status, error) ==
  /\ pc' = [pc EXCEPT ![r] = "done"]
  /\ resp' = [resp EXCEPT ![r] = [status |-> status, error |-> error,
                                  problem |-> Undefined, solution |-> Undefined]]

\* the rest of the /api/solve handler once solveMathProblem(arg) returned
\* value: server.js answers problem.trim(), which is arg; the other variants
\* answer problem, which is arg as well
SendSolution(r, arg, value) ==
  IF variant = "part_000" /\ value = Undefined
  THEN SendError(r, 500, <<"TypeError">>)
  ELSE /\ pc' = [pc EXCEPT ![r] = "done"]
       /\ resp' = [resp EXCEPT ![r] =
            [status |-> 200, error |-> <<>>,
             problem |-> arg,
             solution |-> IF variant = "part_000" THEN wrapSolution(value) ELSE value]]

\* the 'No problem provided' test of the /api/solve handler
NoProblem(p) ==
  IF variant = "server" THEN ~Truthy(p) \/ Len(Trim(p)) = 0 ELSE ~Truthy(p)

\* The /api/solve handler from its 'No problem provided' test on, with the
\* problem text p in hand: the 400 reply, or solveMathProblem up to the point
\* where getCachedSolution returns the cached value or the first tryModel
\* call is in flight.
SolveFrom(r, p) ==
  IF NoProblem(p)
  THEN /\ SendError(r, 400, <<"No problem provided">>)
       /\ UNCHANGED <<cache, problem, modelIdx, seen, solved>>
  ELSE LET arg == IF variant = "server" THEN Trim(p) ELSE p
           key == getCacheKey(arg)
           cached == cacheGet(cache, key, now)
       IN /\ problem' = [problem EXCEPT ![r] = arg]
          /\ cache' = cacheAfterGet(cache, key, now)
          /\ seen' = [seen EXCEPT ![r] =
                        [looked |-> TRUE,
                         present |-> key \in DOMAIN cache,
                         live |-> key \in DOMAIN cache /\ cache[key].t >= now,
                         v |-> IF key \in DOMAIN cache THEN cache[key].v ELSE Undefined]]
          /\ IF Truthy(cached)
             THEN /\ solved' = [solved EXCEPT ![r] =
                                  [state |-> "returned", value |-> cached, error |-> <<>>]]
                  /\ SendSolution(r, arg, cached)
                  /\ UNCHANGED modelIdx
             ELSE /\ pc' = [pc EXCEPT ![r] = "model"]
                  /\ modelIdx' = [modelIdx EXCEPT ![r] = 1]
                  /\ UNCHANGED <<solved, resp>>

\* No response is waiting to be delivered.  Delivery (Forget) changes nothing
\* the program reads, so the model lets it happen before any other step.
Delivered == \A r \in Req : pc[r] # "done"

\* the module-level variables and the files a handler reads or writes
CacheStore == <<"cache", 0>>
WorkerFlag == <<"isWorkerReady", 0>>
WorkerHandle == <<"ocrWorker", 0>>
UploadFile(t) == <<"uploads/upload_<Date.now()>.jpg", t>>

\* who touches: the handler of request r, or the background initializeWorker()
Request(r) == <<"request", r>>
InitTask == <<"initializeWorker", 0>>

Touch(res, by) == {[res |-> res, by |-> by]}

\* what solveMathProblem touches when the handler gets to it with text p
SolveTouches(r, p) == IF NoProblem(p) THEN {} ELSE Touch(CacheStore, Request(r))

\* what the /api/solve handler touches up to its first await
ReceiveTouches(r, text, image) ==
  IF variant = "server"
  THEN (IF image /\ ~Truthy(text) THEN Touch(WorkerFlag, Request(r)) ELSE SolveTouches(r, text))
  ELSE IF image
  THEN (IF variant = "part_003" THEN Touch(UploadFile(now), Request(r)) ELSE {})
  ELSE SolveTouches(r, text)

\* the image branch taken whenever the request has an image, as in part_000
usesImageFirst(text, image) == image

\* server.js, `req.files?.image && !problem`: the image is used only when
\* the body has no problem text
usesImage(text, image) == image /\ ~Truthy(text)

\* the image branch never answering 503
ocrUnavailableNever(ready) == FALSE

\* server.js, `!isWorkerReady`: the image branch answers 503
ocrUnavailable(ready) == ~ready

\* app.post('/api/solve'): the handler up to its first await
Receive(r) ==
  /\ Delivered
  /\ pc[r] = "idle"
  /\ \E text \in BodyTexts, image \in BOOLEAN :
       /\ body' = [body EXCEPT ![r] = [problem |-> text, image |-> image]]
       /\ touched' = touched \cup ReceiveTouches(r, text, image)
       /\ IF variant = "server"
          THEN IF usesImage(text, image)
               THEN /\ IF ocrUnavailable(isWorkerReady)
                       THEN /\ SendError(r, 503, <<"OCR service is temporarily unavailable">>)
                            /\ UNCHANGED ocrCalled
                       ELSE /\ pc' = [pc EXCEPT ![r] = "ocr"]
                            /\ ocrCalled' = [ocrCalled EXCEPT ![r] = TRUE]
                            /\ UNCHANGED resp
                    /\ UNCHANGED <<cache, problem, modelIdx, seen, solved>>
               ELSE /\ SolveFrom(r, text)
                    /\ UNCHANGED ocrCalled
          ELSE IF image
               THEN /\ pc' = [pc EXCEPT ![r] = "ocr"]
                    /\ ocrCalled' = [ocrCalled EXCEPT ![r] = TRUE]
                    /\ UNCHANGED <<cache, problem, modelIdx, seen, solved, resp>>
               ELSE /\ SolveFrom(r, text)
                    /\ UNCHANGED ocrCalled
  /\ UNCHANGED <<variant, now, workerInit, isWorkerReady, lastError, attempts, log>>
  /\ UNCHANGED exceptSolve

\* extractTextFromImage settles: the handler resumes with the text, or its
\* catch answers 500
OcrReply(r) ==
  /\ Delivered
  /\ pc[r] = "ocr"
  /\ \/ /\ SendError(r, 500, IF variant = "server"
                             THEN <<"Image processing failed">>
                             ELSE <<"Failed to process image">>)
        /\ UNCHANGED <<cache, problem, modelIdx, seen, solved, touched>>
     \/ \E text \in OcrTexts :
          /\ SolveFrom(r, text)
          /\ touched' = touched \cup SolveTouches(r, text)
                          \cup (IF variant = "server" THEN Touch(WorkerHandle, Request(r)) ELSE {})
  /\ UNCHANGED <<variant, now, workerInit, isWorkerReady, body, lastError, attempts,
                 ocrCalled, log>>
  /\ UNCHANGED exceptSolve

\* the log records one failed attempt at model m leaves behind
FailureLog(r, m, thrownByTryModel) ==
  {[req |-> r, level |-> "warn", model |-> m]}
  \cup (IF variant = "server" /\ thrownByTryModel
        THEN {[req |-> r, level |-> "error", model |-> m]} ELSE {})

\* the axios.post of tryModel(models[modelIdx[r]]) settles; solveMathProblem
\* runs on to the next tryModel call or to its end, getCachedSolution
\* finishes and the handler answers
ModelReply(r) ==
  /\ Delivered
  /\ pc[r] = "model"
  /\ \E outcome \in FailureKinds \cup Contents :
       LET i == modelIdx[r]
           m == models[i]
           key == getCacheKey(problem[r])
           thrown == outcome \in FailureKinds
           \* result.replace on a missing content throws inside the try
           failed == thrown \/ (outcome = Undefined /\ variant # "part_000")
           kind == IF thrown THEN outcome ELSE "TypeError"
           newLast == IF variant = "server" THEN <<kind, m>> ELSE lastError[r]
       IN IF failed
          THEN /\ attempts' = [attempts EXCEPT ![r] = Append(@, [model |-> m, outcome |-> kind, content |-> Undefined])]
               /\ lastError' = [lastError EXCEPT ![r] = newLast]
               /\ log' = log \cup FailureLog(r, m, thrown)
               /\ IF afterFailure(i) = "next"
                  THEN /\ modelIdx' = [modelIdx EXCEPT ![r] = nextModel(i)]
                       /\ UNCHANGED <<cache, pc, solved, resp>>
                  ELSE LET err == exhaustedError(variant, newLast)
                       IN /\ cache' = cacheAfterSolver(cache, key, FALSE, Undefined, now)
                          /\ solved' = [solved EXCEPT ![r] =
                                          [state |-> "threw", value |-> Undefined, error |-> err]]
                          /\ SendError(r, 500, err)
                          /\ UNCHANGED modelIdx
          ELSE LET value == format(variant, outcome)
               IN /\ attempts' = [attempts EXCEPT ![r] = Append(@, [model |-> m, outcome |-> "success", content |-> outcome])]
                  /\ cache' = cacheAfterSolver(cache, key, TRUE, value, now)
                  /\ solved' = [solved EXCEPT ![r] =
                                  [state |-> "returned", value |-> value, error |-> <<>>]]
                  /\ SendSolution(r, problem[r], value)
                  /\ UNCHANGED <<lastError, modelIdx, log>>
  /\ UNCHANGED <<variant, now, workerInit, isWorkerReady, body, problem, seen, ocrCalled,
                 touched>>
  /\ UNCHANGED exceptSolve

\* the response has been delivered; the slot takes the next request
Forget(r) ==
  /\ pc[r] = "done"
  /\ pc' = [pc EXCEPT ![r] = "idle"]
  /\ body' = [body EXCEPT ![r] = [problem |-> Undefined, image |-> FALSE]]
  /\ problem' = [problem EXCEPT ![r] = Undefined]
  /\ modelIdx' = [modelIdx EXCEPT ![r] = 0]
  /\ lastError' = [lastError EXCEPT ![r] = <<>>]
  /\ attempts' = [attempts EXCEPT ![r] = <<>>]
  /\ seen' = [seen EXCEPT ![r] = NoSeen]
  /\ ocrCalled' = [ocrCalled EXCEPT ![r] = FALSE]
  /\ solved' = [solved EXCEPT ![r] = NoSolved]
  /\ resp' = [resp EXCEPT ![r] = NoResp]
  /\ log' = {l \in log : l.req # r}
  /\ touched' = {t \in touched : t.by # Request(r)}
  /\ UNCHANGED <<variant, now, cache, workerInit, isWorkerReady>>
  /\ UNCHANGED exceptSolve


\* initializeWorker() settles (server.js starts it in the listen callback)
InitializeWorker ==
  /\ Delivered
  /\ variant = "server"
  /\ workerInit = "pending"
  /\ workerInit' = "done"
  /\ isWorkerReady' \in BOOLEAN
  /\ touched' = touched \cup Touch(WorkerHandle, InitTask)
                  \cup Touch(WorkerFlag, InitTask)
  /\ UNCHANGED <<variant, now, cache, pc, body, problem, modelIdx, lastError, attempts,
                 seen, ocrCalled, solved, resp, log>>
  /\ UNCHANGED exceptSolve

\* time passes
Tick ==
  /\ Delivered
  /\ now + TickStep <= MaxTime
  /\ now' = now + TickStep
  /\ UNCHANGED <<variant, cache, workerInit, isWorkerReady, pc, body, problem, modelIdx,
                 lastError, attempts, seen, ocrCalled, solved, resp, log, touched>>
  /\ UNCHANGED exceptSolve

(***************************************************************************)
(* Key derivation on its own: two texts and their cache keys.              *)
(***************************************************************************)
Alphabet == {" ", "a", "A", "2"}

RECURSIVE TextsUpTo(_)
TextsUpTo(n) ==
  IF n = 0 THEN {<<>>}
  ELSE LET shorter == TextsUpTo(n - 1)
       IN shorter \cup {Append(t, c) : t \in {u \in shorter : Len(u) = n - 1}, c \in Alphabet}

Texts == TextsUpTo(MaxLen)

KeyIdle ==
  /\ keyPc = "input"
  /\ textA = <<>>
  /\ textB = <<>>
  /\ keyA = <<>>
  /\ keyB = <<>>

KeyInit ==
  /\ keyPc = "input"
  /\ textA \in Texts
  /\ textB \in Texts
  /\ keyA = <<>>
  /\ keyB = <<>>

\* const key = getCacheKey(problem), for each of the two texts
DeriveKeys ==
  /\ keyPc = "input"
  /\ keyPc' = "derived"
  /\ keyA' = getCacheKey(textA)
  /\ keyB' = getCacheKey(textB)
  /\ UNCHANGED <<textA, textB>>
  /\ UNCHANGED exceptKey

(***************************************************************************)
(* extractTextFromImageWithAI: size checks, sharp, the vision model loop,  *)
(* the checks on the transcription, and the catch that words the error.    *)
(***************************************************************************)
visionModels == <<"meta-llama/Llama-3.2-11B-Vision-Instruct-Turbo",
                  "meta-llama/Llama-Vision-Free",
                  "llava-hf/llava-1.5-7b-hf">>

ImageCeiling == 5 * 1024 * 1024
ProcessedCeiling == 3 * 1024 * 1024
Base64CeilingKB == 2500

\* Math.round(n / 1024)
RoundKB(n) == (n + 512) \div 1024

\* processedImage.toString('base64').length
Base64Length(n) == 4 * ((n + 2) \div 3)

\* imageBuffer.length
ImageSizes == {2048, ImageCeiling, ImageCeiling + 1}

\* what sharp(...).toBuffer() yields: a buffer length, or 0 for a rejection
SharpOutcomes == {0, 1024, 2000000, ProcessedCeiling, ProcessedCeiling + 1}

Eq3x == <<"3", "x", " ", "+", " ", "5", " ", "=", " ", "2", "0">>
ICanSee == <<"I", " ", "c", "a", "n", " ", "s", "e", "e", ":">>

\* response.data.choices[0].message.content of a 2xx reply; Undefined
\* stands for a body without choices
VisionContents == {Undefined, <<>>, <<"x">>, Eq3x, ICanSee \o <<" ", "\n", "\n">> \o Eq3x}

VisionFailures == {<<0, "">>, <<400, "image">>, <<400, "token">>, <<400, "model">>,
                   <<400, "">>, <<401, "">>, <<429, "">>, <<503, "">>, <<404, "">>}

\* the outcome of one axios.post: status 0 is an error without a response;
\* errorMsg is the word of error.response.data.error.message that the catch
\* looks for
VisionOutcomes ==
  {[ok |-> TRUE, status |-> 200, errorMsg |-> "", content |-> c] : c \in VisionContents}
  \cup {[ok |-> FALSE, status |-> f[1], errorMsg |-> f[2], content |-> Undefined] :
          f \in VisionFailures}

LeadIns == {<<"h", "e", "r", "e", "'", "s", " ", "w", "h", "a", "t", " ", "i", " ", "c", "a", "n", " ", "s", "e", "e", ":">>,
            <<"i", " ", "c", "a", "n", " ", "s", "e", "e", ":">>,
            <<"t", "h", "e", " ", "i", "m", "a", "g", "e", " ", "s", "h", "o", "w", "s", ":">>,
            <<"t", "h", "i", "s", " ", "i", "m", "a", "g", "e", " ", "c", "o", "n", "t", "a", "i", "n", "s", ":">>}

\* .replace(/^(Here's what I can see:|I can see:|The image shows:|This image contains:)/gi, '')
StripLeadIn(s) ==
  LET M == {l \in LeadIns : Len(l) <= Len(s) /\ ToLowerCase(SubSeq(s, 1, Len(l))) = l}
  IN IF M = {} THEN s
     ELSE LET l == CHOOSE x \in M : TRUE IN SubSeq(s, Len(l) + 1, Len(s))

\* .replace(/\n\s*\n/g, '\n')
RECURSIVE CollapseBlankLines(_, _)
CollapseBlankLines(s, i) ==
  IF i > Len(s) THEN <<>>
  ELSE LET e == SpaceRunEnd(s, i + 1)
           N == {k \in (i + 1)..e : s[k] = "\n"}
       IN IF s[i] = "\n" /\ N # {}
          THEN <<"\n">> \o CollapseBlankLines(s, (CHOOSE k \in N : \A k2 \in N : k2 <= k) + 1)
          ELSE <<s[i]>> \o CollapseBlankLines(s, i + 1)

\* the clean-up of vision model artifacts and `cleanedText || extractedText`
CleanVisionText(extractedText) ==
  LET cleanedText == Trim(CollapseBlankLines(StripLeadIn(extractedText), 1))
  IN IF cleanedText # <<>> THEN cleanedText ELSE extractedText

Thrown(message) == [message |-> message, status |-> 0, errorMsg |-> ""]

\* the error axios rejects with
AxiosError(o) ==
  [message |-> IF o.status = 0 THEN <<"timeout of 45000ms exceeded">>
               ELSE <<"Request failed with status code", ToString(o.status)>>,
   status |-> o.status, errorMsg |-> o.errorMsg]

\* the catch of extractTextFromImageWithAI: the message of the error it throws
visionCatch(error) ==
  IF error.status = 0
  THEN <<"Failed to extract text from image: ">> \o error.message
       \o <<". Try typing the problem directly.">>
  ELSE IF error.status = 400
  THEN (CASE error.errorMsg \in {"image", "vision"} ->
               <<"Image format not supported. Please try a different JPG/PNG image.">>
          [] error.errorMsg \in {"token", "length"} ->
               <<"Image too complex. Please use a simpler, smaller image.">>
          [] error.errorMsg = "model" ->
               <<"Vision model not available. Please check your Together AI plan or try text input.">>
          [] OTHER ->
               <<"Invalid request format. Please try a different image or use text input.">>)
  ELSE IF error.status = 401
  THEN <<"API key invalid. Please check your Together AI credentials.">>
  ELSE IF error.status = 429
  THEN <<"Rate limit exceeded. Please wait and try again.">>
  ELSE IF error.status >= 500
  THEN <<"Vision service temporarily down. Please try again later.">>
  ELSE <<"Failed to extract text from image: ">> \o error.message
       \o <<". Try typing the problem directly.">>

\* the message of the check after the vision model loop (`!response ||
\* !usedModel`), which the loop never reaches: it throws the last model's
\* error itself
AllVisionModelsUnavailable ==
  <<"All vision models unavailable. Please try typing the problem directly.">>

NoVisionResult == [state |-> "none", text |-> <<>>, error |-> <<>>]

VisionIdle ==
  /\ vPc = "idle"
  /\ vImage = 2048
  /\ vPlan = [i \in 1..Len(visionModels) |->
                [ok |-> TRUE, status |-> 200, errorMsg |-> "", content |-> Eq3x]]
  /\ vProcessed = 0
  /\ vIdx = 0
  /\ vCalls = <<>>
  /\ usedModel = "null"
  /\ vResult = NoVisionResult

VisionInit ==
  /\ vPc = "idle"
  /\ vImage \in ImageSizes
  /\ vPlan \in [1..Len(visionModels) -> VisionOutcomes]
  /\ vProcessed = 0
  /\ vIdx = 0
  /\ vCalls = <<>>
  /\ usedModel = "null"
  /\ vResult = NoVisionResult

\* a throw inside the try of extractTextFromImageWithAI: its catch rewords
\* the error and throws it to the caller
VisionThrow(error) ==
  /\ vPc' = "done"
  /\ vResult' = [state |-> "threw", text |-> <<>>, error |-> visionCatch(error)]

\* extractTextFromImageWithAI(imageBuffer) up to the await on sharp
VisionStart ==
  /\ vPc = "idle"
  /\ IF vImage > ImageCeiling
     THEN VisionThrow(Thrown(<<"Image too large. Please use an image smaller than 5MB.">>))
     ELSE /\ vPc' = "sharp"
          /\ UNCHANGED vResult
  /\ UNCHANGED <<vImage, vPlan, vProcessed, vIdx, vCalls, usedModel>>
  /\ UNCHANGED exceptVision

\* the size checks on the processed image, a variant without the check on
\* the base64 text
transportErrorBytesOnly(n) ==
  IF n > ProcessedCeiling
  THEN <<"Processed image still too large: ", ToString(RoundKB(n)),
         " KB. Please use a smaller image.">>
  ELSE <<>>

\* the two size checks on the processed image: the message of the error
\* thrown, <<>> when the image passes both
transportError(n) ==
  IF n > ProcessedCeiling
  THEN <<"Processed image still too large: ", ToString(RoundKB(n)),
         " KB. Please use a smaller image.">>
  ELSE IF RoundKB(Base64Length(n)) > Base64CeilingKB
  THEN <<"Base64 image too large: ", ToString(RoundKB(Base64Length(n))),
         " KB. Please use a smaller image.">>
  ELSE <<>>

\* sharp settles; the two size checks; the first vision model is asked
SharpDone ==
  /\ vPc = "sharp"
  /\ \E n \in SharpOutcomes :
       /\ vProcessed' = n
       /\ IF n = 0
          THEN /\ VisionThrow(Thrown(<<"Input buffer contains unsupported image format">>))
               /\ UNCHANGED <<vIdx, vCalls>>
          ELSE IF transportError(n) # <<>>
          THEN /\ VisionThrow(Thrown(transportError(n)))
               /\ UNCHANGED <<vIdx, vCalls>>
          ELSE /\ vPc' = "vision"
               /\ vIdx' = 1
               /\ vCalls' = <<visionModels[1]>>
               /\ UNCHANGED vResult
  /\ UNCHANGED <<vImage, vPlan, usedModel>>
  /\ UNCHANGED exceptVision

\* the code after the vision model loop, with the response that ended it
AfterVisionLoop(content) ==
  IF content = Undefined
  THEN VisionThrow(Thrown(<<"Cannot read properties of undefined">>))
  ELSE LET extractedText == Trim(content)
       IN IF Len(extractedText) < MinTextLength
          THEN VisionThrow(Thrown(<<"No text detected in the image. Please ensure the image contains clear, readable math content.">>))
          ELSE /\ vPc' = "done"
               /\ vResult' = [state |-> "returned", text |-> CleanVisionText(extractedText),
                              error |-> <<>>]

\* the axios.post to visionModels[vIdx] settles: break on a response, next
\* model on an error, throw on an error of the last model
VisionReply ==
  /\ vPc = "vision"
  /\ LET o == vPlan[vIdx]
     IN IF o.ok
        THEN /\ usedModel' = visionModels[vIdx]
             /\ AfterVisionLoop(o.content)
             /\ UNCHANGED <<vIdx, vCalls>>
        ELSE IF visionModels[vIdx] = visionModels[Len(visionModels)]
        THEN /\ VisionThrow(AxiosError(o))
             /\ UNCHANGED <<vIdx, vCalls, usedModel>>
        ELSE /\ vIdx' = vIdx + 1
             /\ vCalls' = Append(vCalls, visionModels[vIdx + 1])
             /\ UNCHANGED <<vPc, vResult, usedModel>>
  /\ UNCHANGED <<vImage, vPlan, vProcessed>>
  /\ UNCHANGED exceptVision

(***************************************************************************)
(* postProcessMathText: the heuristic clean-up of recognised text, as      *)
(* server.js and as part_003 write it.  Each replace scans left to right   *)
(* and resumes after a match.                                              *)
(***************************************************************************)
Sqrt == "U+221A"
Pi == "U+03C0"

IsLetter(c) == \E i \in 1..26 : c = UpperLetters[i] \/ c = LowerLetters[i]

\* \w of a regular expression without the u flag
IsWordChar(c) == IsLetter(c) \/ IsDigit(c) \/ c = "_"

\* \b between positions i - 1 and i of s
WordBoundary(s, i) ==
  LET before == i > 1 /\ i - 1 <= Len(s) /\ IsWordChar(s[i - 1])
      after == i >= 1 /\ i <= Len(s) /\ IsWordChar(s[i])
  IN before # after

\* /\bV\b/g -> U+221A
RECURSIVE ReplaceV(_, _)
ReplaceV(s, i) ==
  IF i > Len(s) THEN <<>>
  ELSE IF s[i] = "V" /\ WordBoundary(s, i) /\ WordBoundary(s, i + 1)
       THEN <<Sqrt>> \o ReplaceV(s, i + 1)
       ELSE <<s[i]>> \o ReplaceV(s, i + 1)

\* /\bpi\b/gi -> U+03C0
RECURSIVE ReplacePi(_, _)
ReplacePi(s, i) ==
  IF i > Len(s) THEN <<>>
  ELSE IF /\ i + 1 <= Len(s)
          /\ LowerChar(s[i]) = "p" /\ LowerChar(s[i + 1]) = "i"
          /\ WordBoundary(s, i) /\ WordBoundary(s, i + 2)
       THEN <<Pi>> \o ReplacePi(s, i + 2)
       ELSE <<s[i]>> \o ReplacePi(s, i + 1)

\* /n\s*=\s*\d+/gi anchored at i: the position of the last character of the
\* match, 0 when there is none
MatchNEquals(s, i) ==
  IF LowerChar(s[i]) # "n" THEN 0
  ELSE LET e == SpaceRunEnd(s, i + 1) + 1
       IN IF ~(e <= Len(s) /\ s[e] = "=") THEN 0
          ELSE LET d1 == SpaceRunEnd(s, e + 1) + 1
                   d2 == DigitRunEnd(s, d1)
               IN IF d2 < d1 THEN 0 ELSE d2

\* /n\s*=\s*\d+/gi -> U+03C0
RECURSIVE ReplaceNEquals(_, _)
ReplaceNEquals(s, i) ==
  IF i > Len(s) THEN <<>>
  ELSE LET e == MatchNEquals(s, i)
       IN IF e # 0
          THEN <<Pi>> \o ReplaceNEquals(s, e + 1)
          ELSE <<s[i]>> \o ReplaceNEquals(s, i + 1)

\* /O/g -> '0'
ReplaceO(s) == [i \in 1..Len(s) |-> IF s[i] = "O" THEN "0" ELSE s[i]]

\* /l(?=\s|$|\d)/g -> '1'
ReplaceL(s) ==
  [i \in 1..Len(s) |->
     IF s[i] = "l" /\ (i = Len(s) \/ IsWhitespace(s[i + 1]) \/ IsDigit(s[i + 1]))
     THEN "1" ELSE s[i]]

\* /\/\s*/g -> '/'
RECURSIVE ReplaceSlashSpace(_, _)
ReplaceSlashSpace(s, i) ==
  IF i > Len(s) THEN <<>>
  ELSE IF s[i] = "/"
       THEN <<"/">> \o ReplaceSlashSpace(s, SpaceRunEnd(s, i + 1) + 1)
       ELSE <<s[i]>> \o ReplaceSlashSpace(s, i + 1)

\* /\s{2,}/g -> ' '
RECURSIVE CollapseSpaces(_, _)
CollapseSpaces(s, i) ==
  IF i > Len(s) THEN <<>>
  ELSE LET e == SpaceRunEnd(s, i)
       IN IF e >= i + 1
          THEN <<" ">> \o CollapseSpaces(s, e + 1)
          ELSE <<s[i]>> \o CollapseSpaces(s, i + 1)

\* postProcessMathText of server.js
postProcessServer(text) ==
  Trim(CollapseSpaces(ReplaceSlashSpace(ReplaceL(ReplaceO(
    ReplaceNEquals(ReplacePi(ReplaceV(text, 1), 1), 1))), 1), 1))

\* /(\d)([a-zA-Z])/g -> '$1 $2'
RECURSIVE SplitDigitLetter(_, _)
SplitDigitLetter(s, i) ==
  IF i > Len(s) THEN <<>>
  ELSE IF i + 1 <= Len(s) /\ IsDigit(s[i]) /\ IsLetter(s[i + 1])
       THEN <<s[i], " ", s[i + 1]>> \o SplitDigitLetter(s, i + 2)
       ELSE <<s[i]>> \o SplitDigitLetter(s, i + 1)

\* /([a-zA-Z])(\d)/g -> '$1^$2'
RECURSIVE CaretLetterDigit(_, _)
CaretLetterDigit(s, i) ==
  IF i > Len(s) THEN <<>>
  ELSE IF i + 1 <= Len(s) /\ IsLetter(s[i]) /\ IsDigit(s[i + 1])
       THEN <<s[i], "^", s[i + 1]>> \o CaretLetterDigit(s, i + 2)
       ELSE <<s[i]>> \o CaretLetterDigit(s, i + 1)

\* /(?<=\d)\s*\/\s*(?=\d)/g anchored at i: the position of the last
\* character of the match, 0 when there is none.  \s* is greedy and gives
\* back what the look-ahead needs, which is nothing: a digit is no space.
MatchDigitSlash(s, i) ==
  IF ~(i > 1 /\ IsDigit(s[i - 1])) THEN 0
  ELSE LET sl == SpaceRunEnd(s, i) + 1
       IN IF ~(sl <= Len(s) /\ s[sl] = "/") THEN 0
          ELSE LET e == SpaceRunEnd(s, sl + 1)
               IN IF e + 1 <= Len(s) /\ IsDigit(s[e + 1]) THEN e ELSE 0

\* /(?<=\d)\s*\/\s*(?=\d)/g -> '/'
RECURSIVE TightenSlash(_, _)
TightenSlash(s, i) ==
  IF i > Len(s) THEN <<>>
  ELSE LET e == MatchDigitSlash(s, i)
       IN IF e # 0
          THEN <<"/">> \o TightenSlash(s, e + 1)
          ELSE <<s[i]>> \o TightenSlash(s, i + 1)

\* /_/g -> ''
DropUnderscores(s) == SelectSeq(s, LAMBDA c : c # "_")

\* postProcessMathText of part_003 (its replace of U+221A by itself changes
\* nothing)
postProcess003(text) ==
  Trim(DropUnderscores(TightenSlash(CaretLetterDigit(SplitDigitLetter(
    CollapseSpaces(text, 1), 1), 1), 1)))

\* postProcessMathText as the running server file has it
postProcessMathText(v, text) ==
  IF v = "part_003" THEN postProcess003(text) ELSE postProcessServer(text)

(***************************************************************************)
(* extractTextFromImage of server.js (the shared Tesseract worker) and of  *)
(* part_003 (the Hugging Face model), each followed by the correction of   *)
(* the recognised text: postProcessMathText, then refineMathTextWithAI.    *)
(***************************************************************************)
TwoX == <<"2", "x">>
VlO == <<"V", " ", "l", "O", " ", " ", "/", " ", "2">>
PiN == <<"p", "i", " ", "n", "=", "3", " ", "x", "2", "_">>

\* the text recognition yields
RawTexts == {<<>>, <<" ">>, TwoX, VlO, PiN}

\* response.data.choices[0].message.content of the refinement reply;
\* Undefined stands for a message without content
RefineContents == {Undefined, <<" ", "2", "x">>}

NoOcrResult == [state |-> "none", text |-> <<>>, error |-> <<>>]

OcrIdle ==
  /\ oPc = "idle"
  /\ oImage = 2048
  /\ oStarted = <<>>
  /\ oRaw = Undefined
  /\ oPost = Undefined
  /\ oAi = "none"
  /\ oResult = NoOcrResult

OcrInit ==
  /\ oPc = "idle"
  /\ oImage \in ImageSizes
  /\ oStarted = <<>>
  /\ oRaw = Undefined
  /\ oPost = Undefined
  /\ oAi = "none"
  /\ oResult = NoOcrResult

OcrUnavailable ==
  <<"OCR service is temporarily unavailable. Please try entering the problem as text instead.">>

NoTextDetected ==
  <<"No text detected. Please ensure image has clear text or try typing the problem instead.">>

\* the catch of extractTextFromImage: the message of the error it throws
ocrCatch(v, message) ==
  IF v = "part_003" THEN <<"Failed to process image">>
  ELSE <<"Image processing failed: ">> \o message
       \o <<". Try entering the problem as text instead.">>

OcrThrow(error) ==
  /\ oPc' = "done"
  /\ oResult' = [state |-> "threw", text |-> <<>>, error |-> error]

OcrReturn(text) ==
  /\ oPc' = "done"
  /\ oResult' = [state |-> "returned", text |-> text, error |-> <<>>]

\* extractTextFromImage up to the await on sharp
OcrStart ==
  /\ oPc = "idle"
  /\ IF variant = "server" /\ ~isWorkerReady
     THEN /\ OcrThrow(OcrUnavailable)
          /\ UNCHANGED oStarted
     ELSE /\ oPc' = "sharp"
          /\ oStarted' = <<"sharp">>
          /\ UNCHANGED oResult
  /\ UNCHANGED <<oImage, oRaw, oPost, oAi>>
  /\ UNCHANGED <<solveVars, exceptOcr>>

\* sharp settles; the recognition call is made
OcrSharpDone ==
  /\ oPc = "sharp"
  /\ \/ /\ OcrThrow(ocrCatch(variant, <<"Input buffer contains unsupported image format">>))
        /\ UNCHANGED oStarted
     \/ /\ oPc' = "recognize"
        /\ oStarted' = Append(oStarted, "recognize")
        /\ UNCHANGED oResult
  /\ UNCHANGED <<oImage, oRaw, oPost, oAi>>
  /\ UNCHANGED <<solveVars, exceptOcr>>

\* whether refineMathTextWithAI returns its argument without asking the model
SkipsRefinement(v, rawText) == v = "server" /\ (rawText = <<>> \/ Trim(rawText) = <<>>)

\* the recognition settles (ocrWorker.recognize in server.js, the axios.post
\* to the Hugging Face model in part_003); the text is post-processed and
\* refineMathTextWithAI runs up to its await
OcrRecognized ==
  /\ oPc = "recognize"
  /\ \/ /\ OcrThrow(ocrCatch(variant, <<"recognition failed">>))
        /\ UNCHANGED <<oStarted, oRaw, oPost>>
     \/ \E rawText \in RawTexts :
          /\ oRaw' = rawText
          /\ IF variant = "server" /\ (rawText = <<>> \/ Trim(rawText) = <<>>)
             THEN /\ OcrThrow(ocrCatch(variant, NoTextDetected))
                  /\ UNCHANGED <<oStarted, oPost>>
             ELSE LET postProcessed == postProcessMathText(variant, rawText)
                  IN /\ oPost' = postProcessed
                     /\ IF SkipsRefinement(variant, postProcessed)
                        THEN /\ OcrReturn(postProcessed)
                             /\ UNCHANGED oStarted
                        ELSE /\ oPc' = "refine"
                             /\ oStarted' = Append(oStarted, "refine")
                             /\ UNCHANGED oResult
  /\ UNCHANGED <<oImage, oAi>>
  /\ UNCHANGED <<solveVars, exceptOcr>>

\* refineMathTextWithAI when its axios.post failed or its reply has no
\* content: server.js catches and returns rawText, part_003 lets the error go
refineFailed(v, rawText) == [threw |-> v = "part_003", text |-> rawText]

\* the axios.post of refineMathTextWithAI settles
OcrRefined ==
  /\ oPc = "refine"
  /\ \E outcome \in FailureKinds \cup RefineContents :
       IF outcome \in FailureKinds \/ outcome = Undefined
       THEN /\ oAi' = "failed"
            /\ IF refineFailed(variant, oPost).threw
               THEN OcrThrow(ocrCatch(variant, <<"refinement failed">>))
               ELSE OcrReturn(refineFailed(variant, oPost).text)
       ELSE /\ oAi' = "ok"
            /\ OcrReturn(Trim(outcome))
  /\ UNCHANGED <<oImage, oStarted, oRaw, oPost>>
  /\ UNCHANGED <<solveVars, exceptOcr>>

(***************************************************************************)
(* part_004, POST /solve: solveWithGPT, solveWithWolfram, solveWithNewton, *)
(* each of which answers null when its call fails.                         *)
(***************************************************************************)
solvers004 == <<"gpt", "wolfram", "newton">>

\* what one solveWith... call comes to: a result object, or null after its
\* catch (and, for Wolfram, when no step-by-step pod is among the pods)
Results004 == {"steps", "null"}

NoResp004 == [status |-> 0, provider |-> "none"]

ChainIdle ==
  /\ chain = "none"
  /\ gPc = "idle"
  /\ gAttempts = <<>>
  /\ gResp = NoResp004

\* the rest of the /solve handler once the call to provider p has settled
AfterProvider004(p, result, next) ==
  /\ gAttempts' = Append(gAttempts, [provider |-> p, result |-> result])
  /\ IF result # "null"
     THEN /\ gPc' = "done"
          /\ gResp' = [status |-> 200, provider |-> p]
     ELSE IF next = "none"
     THEN /\ gPc' = "done"
          /\ gResp' = [status |-> 500, provider |-> "none"]
     ELSE /\ gPc' = next
          /\ UNCHANGED gResp

\* app.post("/solve"): the handler up to its first await
PostSolve004 ==
  /\ chain = "part_004"
  /\ gPc = "idle"
  /\ gPc' = "gpt"
  /\ UNCHANGED <<chain, gAttempts, gResp>>
  /\ UNCHANGED exceptChain

\* solveWithGPT(problem) settles
GptReply ==
  /\ chain = "part_004"
  /\ gPc = "gpt"
  /\ \E result \in Results004 : AfterProvider004("gpt", result, "wolfram")
  /\ UNCHANGED chain
  /\ UNCHANGED exceptChain

\* solveWithWolfram(problem) settles
WolframReply ==
  /\ chain = "part_004"
  /\ gPc = "wolfram"
  /\ \E result \in Results004 : AfterProvider004("wolfram", result, "newton")
  /\ UNCHANGED chain
  /\ UNCHANGED exceptChain

\* solveWithNewton(operation, expression) settles
NewtonReply ==
  /\ chain = "part_004"
  /\ gPc = "newton"
  /\ \E result \in Results004 : AfterProvider004("newton", result, "none")
  /\ UNCHANGED chain
  /\ UNCHANGED exceptChain

\* the response has been delivered; the next request arrives
Forget004 ==
  /\ chain = "part_004"
  /\ gPc = "done"
  /\ gPc' = "idle"
  /\ gAttempts' = <<>>
  /\ gResp' = NoResp004
  /\ UNCHANGED chain
  /\ UNCHANGED exceptChain

(***************************************************************************)
(* formatSolution of the browser clients: a chain of global replace calls. *)
(* Each call is a rule: what it matches at a position and what it puts in  *)
(* place of the match.  An HTML tag the function emits is one token whose  *)
(* first character is "<".                                                 *)
(***************************************************************************)
OpeningTags == {"<strong>", "<em>", "<sup>", "<span class=\"log-format\">",
                "<span class=\"log-body\">", "<span class=\"log-base\">",
                "<span class=\"frac\">", "<span class=\"numerator\">",
                "<span class=\"denominator\">", "<div class=\"math-display\">",
                "<span class=\"math-inline\">", "<div class=\"answer-box\">", "<sub>"}
ClosingTags == {"</strong>", "</em>", "</sup>", "</span>", "</div>", "</sub>"}
VoidTags == {"<br>"}
Tags == OpeningTags \cup ClosingTags \cup VoidTags

\* the closing tag of an opening tag
ClosingOf(tag) ==
  CASE tag = "<strong>" -> "</strong>"
    [] tag = "<em>" -> "</em>"
    [] tag = "<sup>" -> "</sup>"
    [] tag = "<sub>" -> "</sub>"
    [] tag \in {"<div class=\"math-display\">", "<div class=\"answer-box\">"} -> "</div>"
    [] OTHER -> "</span>"

FirstChar(tok) == IF tok \in Tags THEN "<" ELSE tok

LetterChars == {UpperLetters[i] : i \in 1..26} \cup {LowerLetters[i] : i \in 1..26}
DigitChars == {"0", "1", "2", "3", "4", "5", "6", "7", "8", "9"}
\* [a-zA-Z0-9], [a-z0-9], [0-9.] and \s
AlnumChars == LetterChars \cup DigitChars
LowerAlnumChars == {LowerLetters[i] : i \in 1..26} \cup DigitChars
NumberChars == DigitChars \cup {"."}
SpaceChars == {" ", "\n", "\t"}

\* the literal pat stands at position i of s
MatchesAt(s, i, pat) ==
  /\ i + Len(pat) - 1 <= Len(s)
  /\ \A k \in 1..Len(pat) : s[i + k - 1] = pat[k]

\* the last position of the longest run of class characters that starts at
\* position i, i - 1 when there is none
RECURSIVE RunEnd(_, _, _)
RunEnd(s, i, class) ==
  IF i <= Len(s) /\ s[i] \in class THEN RunEnd(s, i + 1, class) ELSE i - 1

\* the first position from i on at which pat stands, 0 when there is none
RECURSIVE IndexOf(_, _, _)
IndexOf(s, i, pat) ==
  IF i + Len(pat) - 1 > Len(s) THEN 0
  ELSE IF MatchesAt(s, i, pat) THEN i
  ELSE IndexOf(s, i + 1, pat)

\* . matches every character but a line terminator
NoNewline(s, a, b) == \A k \in a..b : s[k] # "\n"

\* the character class of the two runs of a fraction or an exponent
RunClass(rule) == IF rule.kind = "fraction" THEN NumberChars ELSE AlnumChars

\* part_007: superscriptMap of toSuperscript
superscriptMap007 ==
  ("0" :> "U+2070") @@ ("1" :> "U+00B9") @@ ("2" :> "U+00B2") @@ ("3" :> "U+00B3") @@
  ("4" :> "U+2074") @@ ("5" :> "U+2075") @@ ("6" :> "U+2076") @@ ("7" :> "U+2077") @@
  ("8" :> "U+2078") @@ ("9" :> "U+2079") @@ ("a" :> "U+1D43") @@ ("b" :> "U+1D47") @@
  ("c" :> "U+1D9C") @@ ("d" :> "U+1D48") @@ ("e" :> "U+1D49") @@ ("f" :> "U+1DA0") @@
  ("g" :> "U+1D4D") @@ ("h" :> "U+02B0") @@ ("i" :> "U+1DA6") @@ ("j" :> "U+02B2") @@
  ("k" :> "U+1D4F") @@ ("l" :> "U+02E1") @@ ("m" :> "U+1D50") @@ ("n" :> "U+207F") @@
  ("o" :> "U+1D52") @@ ("p" :> "U+1D56") @@ ("r" :> "U+02B3") @@ ("s" :> "U+02E2") @@
  ("t" :> "U+1D57") @@ ("u" :> "U+1D58") @@ ("v" :> "U+1D5B") @@ ("w" :> "U+02B7") @@
  ("x" :> "U+02E3") @@ ("y" :> "U+02B8") @@ ("z" :> "U+1DBB") @@ ("+" :> "U+207A") @@
  ("-" :> "U+207B") @@ ("=" :> "U+207C") @@ ("(" :> "U+207D") @@ (")" :> "U+207E")

\* part_007: toSuperscript(text)
toSuperscript007(text) ==
  [k \in 1..Len(text) |->
     IF text[k] \in DOMAIN superscriptMap007 THEN superscriptMap007[text[k]] ELSE text[k]]

\* \b after position e of s: a word character is not followed by another
WordEndsAt(s, e) == e + 1 > Len(s) \/ ~IsWordChar(s[e + 1])

\* the last position of the match of the rule that starts at position i of
\* s, 0 when the rule does not match there
MatchEnd(rule, s, i) ==
  LET a == i + Len(rule.pat)
  IN CASE rule.kind = "lit" ->
            IF MatchesAt(s, i, rule.pat) THEN a - 1 ELSE 0
       [] rule.kind = "unescape" ->
            IF i + 1 <= Len(s) /\ s[i] = rule.pat[1] /\ FirstChar(s[i + 1]) = rule.pat[2]
            THEN i + 1 ELSE 0
       [] rule.kind \in {"group", "dropgroup"} ->
            IF MatchesAt(s, i, rule.pat) THEN IndexOf(s, a, <<"}">>) ELSE 0
       [] rule.kind = "group2" ->
            LET j == IndexOf(s, a, <<"}">>)
            IN IF MatchesAt(s, i, rule.pat) /\ j # 0 /\ MatchesAt(s, j + 1, rule.mid)
               THEN IndexOf(s, j + 1 + Len(rule.mid), <<"}">>) ELSE 0
       [] rule.kind = "command" ->
            IF s[i] = "\\" /\ RunEnd(s, i + 1, LetterChars) > i
            THEN RunEnd(s, i + 1, LetterChars) ELSE 0
       [] rule.kind = "dollars" ->
            LET j == IndexOf(s, a, <<"$">>)
            IN IF MatchesAt(s, i, rule.pat) /\ j > a /\ MatchesAt(s, j, rule.pat)
               THEN j + Len(rule.pat) - 1 ELSE 0
       [] rule.kind \in {"lazy", "lazydrop"} ->
            LET j == IndexOf(s, a, rule.mid)
            IN IF MatchesAt(s, i, rule.pat) /\ j # 0 /\ NoNewline(s, a, j - 1)
               THEN j + Len(rule.mid) - 1 ELSE 0
       [] rule.kind = "log" ->
            LET r == RunEnd(s, a, LowerAlnumChars)
                j == IndexOf(s, r + 2, <<")">>)
            IN IF MatchesAt(s, i, rule.pat) /\ r >= a /\ MatchesAt(s, r + 1, <<"(">>)
                  /\ j > r + 2
               THEN j ELSE 0
       [] rule.kind \in {"fraction", "exponent"} ->
            LET r == RunEnd(s, i, RunClass(rule))
                e == RunEnd(s, r + 2, RunClass(rule))
            IN IF r >= i /\ MatchesAt(s, r + 1, rule.mid) /\ e >= r + 2 THEN e ELSE 0
       [] rule.kind = "spaces" ->
            IF s[i] \in SpaceChars THEN RunEnd(s, i, SpaceChars) ELSE 0
       [] rule.kind = "blanklines" ->
            LET r == RunEnd(s, i + 1, SpaceChars)
                ends == {k \in (i + 1)..r : s[k] = "\n"}
            IN IF s[i] = "\n" /\ ends # {}
               THEN CHOOSE k \in ends : \A m \in ends : m <= k ELSE 0
       [] rule.kind = "dropgroup1" ->
            LET j == IndexOf(s, a, <<"}">>)
            IN IF MatchesAt(s, i, rule.pat) /\ j > a THEN j ELSE 0
       [] rule.kind = "unescapeany" ->
            IF i + 1 <= Len(s) /\ s[i] = rule.pat[1] /\ FirstChar(s[i + 1]) # rule.pat[2]
            THEN i + 1 ELSE 0
       [] rule.kind = "power" ->
            IF s[i] \in AlnumChars /\ MatchesAt(s, i + 1, rule.pat) /\ WordEndsAt(s, a)
            THEN a ELSE 0
       [] rule.kind = "supletter" ->
            IF s[i] \in AlnumChars /\ MatchesAt(s, i + 1, rule.pat) /\ a + 1 <= Len(s)
                  /\ s[a + 1] \in LetterChars
            THEN a + 1 ELSE 0
       [] rule.kind = "supparen" ->
            LET j == IndexOf(s, a + 1, <<")">>)
            IN IF s[i] \in AlnumChars /\ MatchesAt(s, i + 1, rule.pat) /\ j > a + 1
               THEN j ELSE 0
       [] rule.kind = "logdigits" ->
            IF MatchesAt(s, i, rule.pat) /\ RunEnd(s, a, DigitChars) >= a
            THEN RunEnd(s, a, DigitChars) ELSE 0
       [] rule.kind = "logletter" ->
            IF MatchesAt(s, i, rule.pat) /\ a <= Len(s) /\ s[a] \in LowerAlnumChars \ DigitChars
            THEN a ELSE 0
       [] rule.kind = "wordlit" ->
            IF MatchesAt(s, i, rule.pat) /\ WordEndsAt(s, a - 1) THEN a - 1 ELSE 0

\* what the rule puts in place of its match from position i to position e
Replacement(rule, s, i, e) ==
  LET a == i + Len(rule.pat)
  IN CASE rule.kind \in {"lit", "dropgroup", "lazydrop", "command", "spaces", "blanklines",
                          "dropgroup1", "wordlit"} ->
            rule.post
       [] rule.kind = "unescape" -> <<s[e]>>
       [] rule.kind = "group" -> rule.pre \o SubSeq(s, a, e - 1) \o rule.post
       [] rule.kind = "group2" ->
            LET j == IndexOf(s, a, <<"}">>)
            IN rule.pre \o SubSeq(s, a, j - 1) \o rule.sep
                 \o SubSeq(s, j + 1 + Len(rule.mid), e - 1) \o rule.post
       [] rule.kind = "dollars" -> SubSeq(s, a, e - Len(rule.pat))
       [] rule.kind = "lazy" -> rule.pre \o SubSeq(s, a, e - Len(rule.mid)) \o rule.post
       [] rule.kind = "log" ->
            LET r == RunEnd(s, a, LowerAlnumChars)
            IN rule.pre \o SubSeq(s, a, r) \o rule.sep \o SubSeq(s, r + 2, e - 1) \o rule.post
       [] rule.kind \in {"fraction", "exponent"} ->
            LET r == RunEnd(s, i, RunClass(rule))
            IN rule.pre \o SubSeq(s, i, r) \o rule.sep \o SubSeq(s, r + 2, e) \o rule.post
       [] rule.kind = "unescapeany" -> <<s[e]>>
       [] rule.kind = "power" -> <<s[i]>> \o rule.post
       [] rule.kind = "supletter" -> <<s[i]>> \o toSuperscript007(SubSeq(s, e, e))
       [] rule.kind = "supparen" -> <<s[i]>> \o toSuperscript007(SubSeq(s, a + 1, e - 1))
       [] rule.kind \in {"logdigits", "logletter"} ->
            rule.pre \o SubSeq(s, a, e) \o rule.post

\* String.prototype.replace with a global pattern, from position i on: the
\* matches are taken from left to right and do not overlap
RECURSIVE ReplaceFrom(_, _, _)
ReplaceFrom(rule, s, i) ==
  IF i > Len(s) THEN <<>>
  ELSE LET e == MatchEnd(rule, s, i)
       IN IF e # 0
          THEN Replacement(rule, s, i, e) \o ReplaceFrom(rule, s, e + 1)
          ELSE <<s[i]>> \o ReplaceFrom(rule, s, i + 1)

Replace(rule, s) == ReplaceFrom(rule, s, 1)

\* the chained replace calls rules[lo], ..., rules[hi] applied in order
\* (the test of Len(first) makes TLC compute the first half before it
\* starts on the second, which keeps its evaluation stack shallow)
RECURSIVE ReplaceRange(_, _, _, _)
ReplaceRange(rules, s, lo, hi) ==
  IF lo > hi THEN s
  ELSE IF lo = hi THEN Replace(rules[lo], s)
  ELSE LET half == (lo + hi) \div 2
           first == ReplaceRange(rules, s, lo, half)
       IN IF Len(first) >= 0 THEN ReplaceRange(rules, first, half + 1, hi) ELSE first

ReplaceChain(rules, s) == ReplaceRange(rules, s, 1, Len(rules))

\* public/script.js: the chain that builds cleanText
scriptRules ==
  << [kind |-> "group", pat |-> <<"\\", "b", "o", "x", "e", "d", "{">>, mid |-> <<>>, pre |-> <<>>, sep |-> <<>>, post |-> <<>>],
     [kind |-> "dropgroup", pat |-> <<"\\", "b", "e", "g", "i", "n", "{">>, mid |-> <<>>, pre |-> <<>>, sep |-> <<>>, post |-> <<>>],
     [kind |-> "dropgroup", pat |-> <<"\\", "e", "n", "d", "{">>, mid |-> <<>>, pre |-> <<>>, sep |-> <<>>, post |-> <<>>],
     [kind |-> "group", pat |-> <<"\\", "t", "e", "x", "t", "{">>, mid |-> <<>>, pre |-> <<>>, sep |-> <<>>, post |-> <<>>],
     [kind |-> "group", pat |-> <<"\\", "m", "a", "t", "h", "r", "m", "{">>, mid |-> <<>>, pre |-> <<>>, sep |-> <<>>, post |-> <<>>],
     [kind |-> "group", pat |-> <<"\\", "m", "a", "t", "h", "b", "f", "{">>, mid |-> <<>>, pre |-> <<"<strong>">>, sep |-> <<>>, post |-> <<"</strong>">>],
     [kind |-> "group", pat |-> <<"\\", "m", "a", "t", "h", "i", "t", "{">>, mid |-> <<>>, pre |-> <<"<em>">>, sep |-> <<>>, post |-> <<"</em>">>],
     [kind |-> "group2", pat |-> <<"\\", "f", "r", "a", "c", "{">>, mid |-> <<"{">>, pre |-> <<>>, sep |-> <<" ", "d", "i", "v", "i", "d", "e", "d", " ", "b", "y", " ">>, post |-> <<>>],
     [kind |-> "group", pat |-> <<"\\", "s", "q", "r", "t", "{">>, mid |-> <<>>, pre |-> <<"s", "q", "u", "a", "r", "e", " ", "r", "o", "o", "t", " ", "o", "f", " ">>, sep |-> <<>>, post |-> <<>>],
     [kind |-> "group2", pat |-> <<"\\", "s", "u", "m", "_", "{">>, mid |-> <<"^", "{">>, pre |-> <<"s", "u", "m", " ", "f", "r", "o", "m", " ">>, sep |-> <<" ", "t", "o", " ">>, post |-> <<>>],
     [kind |-> "group2", pat |-> <<"\\", "i", "n", "t", "_", "{">>, mid |-> <<"^", "{">>, pre |-> <<"i", "n", "t", "e", "g", "r", "a", "l", " ", "f", "r", "o", "m", " ">>, sep |-> <<" ", "t", "o", " ">>, post |-> <<>>],
     [kind |-> "group", pat |-> <<"\\", "l", "i", "m", "_", "{">>, mid |-> <<>>, pre |-> <<"l", "i", "m", "i", "t", " ", "a", "s", " ">>, sep |-> <<>>, post |-> <<>>],
     [kind |-> "lit", pat |-> <<"\\", "t", "o">>, mid |-> <<>>, pre |-> <<>>, sep |-> <<>>, post |-> <<"U+2192">>],
     [kind |-> "lit", pat |-> <<"\\", "i", "n", "f", "t", "y">>, mid |-> <<>>, pre |-> <<>>, sep |-> <<>>, post |-> <<"U+221E">>],
     [kind |-> "lit", pat |-> <<"\\", "t", "i", "m", "e", "s">>, mid |-> <<>>, pre |-> <<>>, sep |-> <<>>, post |-> <<"U+00D7">>],
     [kind |-> "lit", pat |-> <<"\\", "d", "i", "v">>, mid |-> <<>>, pre |-> <<>>, sep |-> <<>>, post |-> <<"U+00F7">>],
     [kind |-> "lit", pat |-> <<"\\", "p", "m">>, mid |-> <<>>, pre |-> <<>>, sep |-> <<>>, post |-> <<"U+00B1">>],
     [kind |-> "lit", pat |-> <<"\\", "a", "p", "p", "r", "o", "x">>, mid |-> <<>>, pre |-> <<>>, sep |-> <<>>, post |-> <<"U+2248">>],
     [kind |-> "lit", pat |-> <<"\\", "n", "e", "q">>, mid |-> <<>>, pre |-> <<>>, sep |-> <<>>, post |-> <<"U+2260">>],
     [kind |-> "lit", pat |-> <<"\\", "l", "e", "q">>, mid |-> <<>>, pre |-> <<>>, sep |-> <<>>, post |-> <<"U+2264">>],
     [kind |-> "lit", pat |-> <<"\\", "g", "e", "q">>, mid |-> <<>>, pre |-> <<>>, sep |-> <<>>, post |-> <<"U+2265">>],
     [kind |-> "lit", pat |-> <<"\\", "c", "d", "o", "t">>, mid |-> <<>>, pre |-> <<>>, sep |-> <<>>, post |-> <<"U+00B7">>],
     [kind |-> "lit", pat |-> <<"\\", "l", "d", "o", "t", "s">>, mid |-> <<>>, pre |-> <<>>, sep |-> <<>>, post |-> <<".", ".", ".">>],
     [kind |-> "lit", pat |-> <<"\\", "c", "d", "o", "t", "s">>, mid |-> <<>>, pre |-> <<>>, sep |-> <<>>, post |-> <<"U+22EF">>],
     [kind |-> "lit", pat |-> <<"\\", "v", "d", "o", "t", "s">>, mid |-> <<>>, pre |-> <<>>, sep |-> <<>>, post |-> <<"U+22EE">>],
     [kind |-> "lit", pat |-> <<"\\", "d", "d", "o", "t", "s">>, mid |-> <<>>, pre |-> <<>>, sep |-> <<>>, post |-> <<"U+22F1">>],
     [kind |-> "lit", pat |-> <<"\\", "l", "e", "f", "t", "(">>, mid |-> <<>>, pre |-> <<>>, sep |-> <<>>, post |-> <<"(">>],
     [kind |-> "lit", pat |-> <<"\\", "r", "i", "g", "h", "t", ")">>, mid |-> <<>>, pre |-> <<>>, sep |-> <<>>, post |-> <<")">>],
     [kind |-> "lit", pat |-> <<"\\", "l", "e", "f", "t", "[">>, mid |-> <<>>, pre |-> <<>>, sep |-> <<>>, post |-> <<"[">>],
     [kind |-> "lit", pat |-> <<"\\", "r", "i", "g", "h", "t", "]">>, mid |-> <<>>, pre |-> <<>>, sep |-> <<>>, post |-> <<"]">>],
     [kind |-> "lit", pat |-> <<"\\", "l", "e", "f", "t", "\\", "{">>, mid |-> <<>>, pre |-> <<>>, sep |-> <<>>, post |-> <<"{">>],
     [kind |-> "lit", pat |-> <<"\\", "r", "i", "g", "h", "t", "\\", "}">>, mid |-> <<>>, pre |-> <<>>, sep |-> <<>>, post |-> <<"}">>],
     [kind |-> "lit", pat |-> <<"\\", "l", "e", "f", "t", "|">>, mid |-> <<>>, pre |-> <<>>, sep |-> <<>>, post |-> <<"|">>],
     [kind |-> "lit", pat |-> <<"\\", "r", "i", "g", "h", "t", "|">>, mid |-> <<>>, pre |-> <<>>, sep |-> <<>>, post |-> <<"|">>],
     [kind |-> "lit", pat |-> <<"\\", ",">>, mid |-> <<>>, pre |-> <<>>, sep |-> <<>>, post |-> <<" ">>],
     [kind |-> "lit", pat |-> <<"\\", ":">>, mid |-> <<>>, pre |-> <<>>, sep |-> <<>>, post |-> <<" ">>],
     [kind |-> "lit", pat |-> <<"\\", ";">>, mid |-> <<>>, pre |-> <<>>, sep |-> <<>>, post |-> <<" ">>],
     [kind |-> "lit", pat |-> <<"\\", "!">>, mid |-> <<>>, pre |-> <<>>, sep |-> <<>>, post |-> <<>>],
     [kind |-> "unescape", pat |-> <<"\\", " ">>, mid |-> <<>>, pre |-> <<>>, sep |-> <<>>, post |-> <<>>],
     [kind |-> "lit", pat |-> <<"\\", "q", "u", "a", "d">>, mid |-> <<>>, pre |-> <<>>, sep |-> <<>>, post |-> <<" ", " ", " ", " ">>],
     [kind |-> "lit", pat |-> <<"\\", "q", "q", "u", "a", "d">>, mid |-> <<>>, pre |-> <<>>, sep |-> <<>>, post |-> <<" ", " ", " ", " ", " ", " ", " ", " ">>],
     [kind |-> "dropgroup", pat |-> <<"\\", "h", "s", "p", "a", "c", "e", "{">>, mid |-> <<>>, pre |-> <<>>, sep |-> <<>>, post |-> <<" ">>],
     [kind |-> "dropgroup", pat |-> <<"\\", "v", "s", "p", "a", "c", "e", "{">>, mid |-> <<>>, pre |-> <<>>, sep |-> <<>>, post |-> <<" ">>],
     [kind |-> "lit", pat |-> <<"\\", "s", "m", "a", "l", "l", "s", "k", "i", "p">>, mid |-> <<>>, pre |-> <<>>, sep |-> <<>>, post |-> <<"\n", "\n">>],
     [kind |-> "lit", pat |-> <<"\\", "m", "e", "d", "s", "k", "i", "p">>, mid |-> <<>>, pre |-> <<>>, sep |-> <<>>, post |-> <<"\n", "\n", "\n">>],
     [kind |-> "lit", pat |-> <<"\\", "b", "i", "g", "s", "k", "i", "p">>, mid |-> <<>>, pre |-> <<>>, sep |-> <<>>, post |-> <<"\n", "\n", "\n", "\n">>],
     [kind |-> "lit", pat |-> <<"\\", "n", "e", "w", "l", "i", "n", "e">>, mid |-> <<>>, pre |-> <<>>, sep |-> <<>>, post |-> <<"\n">>],
     [kind |-> "lit", pat |-> <<"\\", "l", "i", "n", "e", "b", "r", "e", "a", "k">>, mid |-> <<>>, pre |-> <<>>, sep |-> <<>>, post |-> <<"\n">>],
     [kind |-> "lit", pat |-> <<"\\", "p", "a", "r">>, mid |-> <<>>, pre |-> <<>>, sep |-> <<>>, post |-> <<"\n", "\n">>],
     [kind |-> "lit", pat |-> <<"\\", "n", "o", "i", "n", "d", "e", "n", "t">>, mid |-> <<>>, pre |-> <<>>, sep |-> <<>>, post |-> <<>>],
     [kind |-> "lit", pat |-> <<"\\", "c", "e", "n", "t", "e", "r", "i", "n", "g">>, mid |-> <<>>, pre |-> <<>>, sep |-> <<>>, post |-> <<>>],
     [kind |-> "lit", pat |-> <<"\\", "r", "a", "g", "g", "e", "d", "r", "i", "g", "h", "t">>, mid |-> <<>>, pre |-> <<>>, sep |-> <<>>, post |-> <<>>],
     [kind |-> "lit", pat |-> <<"\\", "r", "a", "g", "g", "e", "d", "l", "e", "f", "t">>, mid |-> <<>>, pre |-> <<>>, sep |-> <<>>, post |-> <<>>],
     [kind |-> "dropgroup", pat |-> <<"\\", "l", "a", "b", "e", "l", "{">>, mid |-> <<>>, pre |-> <<>>, sep |-> <<>>, post |-> <<>>],
     [kind |-> "dropgroup", pat |-> <<"\\", "r", "e", "f", "{">>, mid |-> <<>>, pre |-> <<>>, sep |-> <<>>, post |-> <<>>],
     [kind |-> "dropgroup", pat |-> <<"\\", "c", "i", "t", "e", "{">>, mid |-> <<>>, pre |-> <<>>, sep |-> <<>>, post |-> <<>>],
     [kind |-> "dropgroup", pat |-> <<"\\", "f", "o", "o", "t", "n", "o", "t", "e", "{">>, mid |-> <<>>, pre |-> <<>>, sep |-> <<>>, post |-> <<>>],
     [kind |-> "dropgroup", pat |-> <<"\\", "c", "a", "p", "t", "i", "o", "n", "{">>, mid |-> <<>>, pre |-> <<>>, sep |-> <<>>, post |-> <<>>],
     [kind |-> "dropgroup", pat |-> <<"\\", "t", "i", "t", "l", "e", "{">>, mid |-> <<>>, pre |-> <<>>, sep |-> <<>>, post |-> <<>>],
     [kind |-> "dropgroup", pat |-> <<"\\", "a", "u", "t", "h", "o", "r", "{">>, mid |-> <<>>, pre |-> <<>>, sep |-> <<>>, post |-> <<>>],
     [kind |-> "dropgroup", pat |-> <<"\\", "d", "a", "t", "e", "{">>, mid |-> <<>>, pre |-> <<>>, sep |-> <<>>, post |-> <<>>],
     [kind |-> "lit", pat |-> <<"\\", "m", "a", "k", "e", "t", "i", "t", "l", "e">>, mid |-> <<>>, pre |-> <<>>, sep |-> <<>>, post |-> <<>>],
     [kind |-> "lit", pat |-> <<"\\", "t", "a", "b", "l", "e", "o", "f", "c", "o", "n", "t", "e", "n", "t", "s">>, mid |-> <<>>, pre |-> <<>>, sep |-> <<>>, post |-> <<>>],
     [kind |-> "lit", pat |-> <<"\\", "l", "i", "s", "t", "o", "f", "f", "i", "g", "u", "r", "e", "s">>, mid |-> <<>>, pre |-> <<>>, sep |-> <<>>, post |-> <<>>],
     [kind |-> "lit", pat |-> <<"\\", "l", "i", "s", "t", "o", "f", "t", "a", "b", "l", "e", "s">>, mid |-> <<>>, pre |-> <<>>, sep |-> <<>>, post |-> <<>>],
     [kind |-> "dropgroup", pat |-> <<"\\", "b", "i", "b", "l", "i", "o", "g", "r", "a", "p", "h", "y", "{">>, mid |-> <<>>, pre |-> <<>>, sep |-> <<>>, post |-> <<>>],
     [kind |-> "dropgroup", pat |-> <<"\\", "b", "i", "b", "l", "i", "o", "g", "r", "a", "p", "h", "y", "s", "t", "y", "l", "e", "{">>, mid |-> <<>>, pre |-> <<>>, sep |-> <<>>, post |-> <<>>],
     [kind |-> "dropgroup", pat |-> <<"\\", "i", "n", "d", "e", "x", "{">>, mid |-> <<>>, pre |-> <<>>, sep |-> <<>>, post |-> <<>>],
     [kind |-> "dropgroup", pat |-> <<"\\", "g", "l", "o", "s", "s", "a", "r", "y", "{">>, mid |-> <<>>, pre |-> <<>>, sep |-> <<>>, post |-> <<>>],
     [kind |-> "dropgroup", pat |-> <<"\\", "i", "n", "c", "l", "u", "d", "e", "{">>, mid |-> <<>>, pre |-> <<>>, sep |-> <<>>, post |-> <<>>],
     [kind |-> "dropgroup", pat |-> <<"\\", "i", "n", "p", "u", "t", "{">>, mid |-> <<>>, pre |-> <<>>, sep |-> <<>>, post |-> <<>>],
     [kind |-> "dropgroup", pat |-> <<"\\", "u", "s", "e", "p", "a", "c", "k", "a", "g", "e", "{">>, mid |-> <<>>, pre |-> <<>>, sep |-> <<>>, post |-> <<>>],
     [kind |-> "dropgroup", pat |-> <<"\\", "d", "o", "c", "u", "m", "e", "n", "t", "c", "l", "a", "s", "s", "{">>, mid |-> <<>>, pre |-> <<>>, sep |-> <<>>, post |-> <<>>],
     [kind |-> "lit", pat |-> <<"\\", "b", "e", "g", "i", "n", "{", "d", "o", "c", "u", "m", "e", "n", "t", "}">>, mid |-> <<>>, pre |-> <<>>, sep |-> <<>>, post |-> <<>>],
     [kind |-> "lit", pat |-> <<"\\", "e", "n", "d", "{", "d", "o", "c", "u", "m", "e", "n", "t", "}">>, mid |-> <<>>, pre |-> <<>>, sep |-> <<>>, post |-> <<>>],
     [kind |-> "command", pat |-> <<>>, mid |-> <<>>, pre |-> <<>>, sep |-> <<>>, post |-> <<>>],
     [kind |-> "dollars", pat |-> <<"$", "$">>, mid |-> <<>>, pre |-> <<>>, sep |-> <<>>, post |-> <<>>],
     [kind |-> "dollars", pat |-> <<"$">>, mid |-> <<>>, pre |-> <<>>, sep |-> <<>>, post |-> <<>>],
     [kind |-> "lit", pat |-> <<"\\", "[">>, mid |-> <<>>, pre |-> <<>>, sep |-> <<>>, post |-> <<>>],
     [kind |-> "lit", pat |-> <<"\\", "]">>, mid |-> <<>>, pre |-> <<>>, sep |-> <<>>, post |-> <<>>],
     [kind |-> "lit", pat |-> <<"\\", "(">>, mid |-> <<>>, pre |-> <<>>, sep |-> <<>>, post |-> <<>>],
     [kind |-> "lit", pat |-> <<"\\", ")">>, mid |-> <<>>, pre |-> <<>>, sep |-> <<>>, post |-> <<>>],
     [kind |-> "lit", pat |-> <<"{">>, mid |-> <<>>, pre |-> <<>>, sep |-> <<>>, post |-> <<>>],
     [kind |-> "lit", pat |-> <<"}">>, mid |-> <<>>, pre |-> <<>>, sep |-> <<>>, post |-> <<>>],
     [kind |-> "unescape", pat |-> <<"\\", "_">>, mid |-> <<>>, pre |-> <<>>, sep |-> <<>>, post |-> <<>>],
     [kind |-> "unescape", pat |-> <<"\\", "^">>, mid |-> <<>>, pre |-> <<>>, sep |-> <<>>, post |-> <<>>],
     [kind |-> "unescape", pat |-> <<"\\", "~">>, mid |-> <<>>, pre |-> <<>>, sep |-> <<>>, post |-> <<>>],
     [kind |-> "unescape", pat |-> <<"\\", "&">>, mid |-> <<>>, pre |-> <<>>, sep |-> <<>>, post |-> <<>>],
     [kind |-> "unescape", pat |-> <<"\\", "%">>, mid |-> <<>>, pre |-> <<>>, sep |-> <<>>, post |-> <<>>],
     [kind |-> "unescape", pat |-> <<"\\", "#">>, mid |-> <<>>, pre |-> <<>>, sep |-> <<>>, post |-> <<>>],
     [kind |-> "unescape", pat |-> <<"\\", "$">>, mid |-> <<>>, pre |-> <<>>, sep |-> <<>>, post |-> <<>>],
     [kind |-> "unescape", pat |-> <<"\\", "{">>, mid |-> <<>>, pre |-> <<>>, sep |-> <<>>, post |-> <<>>],
     [kind |-> "unescape", pat |-> <<"\\", "}">>, mid |-> <<>>, pre |-> <<>>, sep |-> <<>>, post |-> <<>>],
     [kind |-> "unescape", pat |-> <<"\\", "|">>, mid |-> <<>>, pre |-> <<>>, sep |-> <<>>, post |-> <<>>],
     [kind |-> "unescape", pat |-> <<"\\", "<">>, mid |-> <<>>, pre |-> <<>>, sep |-> <<>>, post |-> <<>>],
     [kind |-> "unescape", pat |-> <<"\\", ">">>, mid |-> <<>>, pre |-> <<>>, sep |-> <<>>, post |-> <<>>],
     [kind |-> "unescape", pat |-> <<"\\", "[">>, mid |-> <<>>, pre |-> <<>>, sep |-> <<>>, post |-> <<>>],
     [kind |-> "unescape", pat |-> <<"\\", "]">>, mid |-> <<>>, pre |-> <<>>, sep |-> <<>>, post |-> <<>>],
     [kind |-> "unescape", pat |-> <<"\\", "(">>, mid |-> <<>>, pre |-> <<>>, sep |-> <<>>, post |-> <<>>],
     [kind |-> "unescape", pat |-> <<"\\", ")">>, mid |-> <<>>, pre |-> <<>>, sep |-> <<>>, post |-> <<>>] >>

\* public/script.js: "Format logarithms properly"
logRule ==
  [kind |-> "log", pat |-> <<"\\", "l", "o", "g", "_">>, mid |-> <<>>,
   pre |-> <<"<span class=\"log-format\">", "<span class=\"log-body\">", "l", "o", "g",
             "</span>", "<span class=\"log-base\">">>,
   sep |-> <<"</span>", "(">>,
   post |-> <<")", "</span>">>]

\* public/script.js: "Format fractions visually"
fractionRule ==
  [kind |-> "fraction", pat |-> <<>>, mid |-> <<"/">>,
   pre |-> <<"<span class=\"frac\">", "<span class=\"numerator\">">>,
   sep |-> <<"</span>", "<span class=\"denominator\">">>,
   post |-> <<"</span>", "</span>">>]

\* public/script.js: "Format exponents"
exponentRule ==
  [kind |-> "exponent", pat |-> <<>>, mid |-> <<"^">>,
   pre |-> <<>>, sep |-> <<"<sup>">>, post |-> <<"</sup>">>]

\* public/script.js: "Clean up multiple spaces and newlines"
spacesRule ==
  [kind |-> "spaces", pat |-> <<>>, mid |-> <<>>, pre |-> <<>>, sep |-> <<>>, post |-> <<" ">>]
blankLinesRule ==
  [kind |-> "blanklines", pat |-> <<>>, mid |-> <<>>, pre |-> <<>>, sep |-> <<>>,
   post |-> <<"\n", "\n">>]

formatSolutionScript(solution) ==
  LET cleanText == ReplaceChain(scriptRules, solution)
      finishing == <<logRule, fractionRule, exponentRule, spacesRule, blankLinesRule>>
  IN Trim(ReplaceChain(finishing, cleanText))

\* part_006: the chain of formatSolution
part006Rules ==
  << [kind |-> "lit", pat |-> <<"*">>, mid |-> <<>>, pre |-> <<>>, sep |-> <<>>, post |-> <<"U+00D7">>],
     [kind |-> "lit", pat |-> <<"\\", "t", "i", "m", "e", "s">>, mid |-> <<>>, pre |-> <<>>, sep |-> <<>>, post |-> <<"U+00D7">>],
     [kind |-> "lit", pat |-> <<"\\", "d", "i", "v">>, mid |-> <<>>, pre |-> <<>>, sep |-> <<>>, post |-> <<"U+00F7">>],
     [kind |-> "lazydrop", pat |-> <<"\\", "b", "e", "g", "i", "n", "{">>, mid |-> <<"}">>, pre |-> <<>>, sep |-> <<>>, post |-> <<>>],
     [kind |-> "lazydrop", pat |-> <<"\\", "e", "n", "d", "{">>, mid |-> <<"}">>, pre |-> <<>>, sep |-> <<>>, post |-> <<>>],
     [kind |-> "lit", pat |-> <<"\\", "q", "u", "a", "d">>, mid |-> <<>>, pre |-> <<>>, sep |-> <<>>, post |-> <<" ">>],
     [kind |-> "lit", pat |-> <<"\\", "t", "e", "x", "t", "{">>, mid |-> <<>>, pre |-> <<>>, sep |-> <<>>, post |-> <<>>],
     [kind |-> "lit", pat |-> <<"}">>, mid |-> <<>>, pre |-> <<>>, sep |-> <<>>, post |-> <<>>],
     [kind |-> "lazy", pat |-> <<"$", "$">>, mid |-> <<"$", "$">>, pre |-> <<"<div class=\"math-display\">", "$">>, sep |-> <<>>, post |-> <<"$", "</div>">>],
     [kind |-> "lazy", pat |-> <<"$">>, mid |-> <<"$">>, pre |-> <<"<span class=\"math-inline\">">>, sep |-> <<>>, post |-> <<"</span>">>],
     [kind |-> "lazy", pat |-> <<"\\", "b", "o", "x", "e", "d", "{">>, mid |-> <<"}">>, pre |-> <<"<div class=\"answer-box\">">>, sep |-> <<>>, post |-> <<"</div>">>],
     [kind |-> "lit", pat |-> <<"\n">>, mid |-> <<>>, pre |-> <<>>, sep |-> <<>>, post |-> <<"<br>">>] >>

formatSolution006(solution) == ReplaceChain(part006Rules, solution)

\* part_007: the chain that builds cleanSolution
part007CleanRules ==
  << [kind |-> "group", pat |-> <<"\\", "b", "o", "x", "e", "d", "{">>, mid |-> <<>>, pre |-> <<>>, sep |-> <<>>, post |-> <<>>],
     [kind |-> "dropgroup1", pat |-> <<"\\", "b", "e", "g", "i", "n", "{">>, mid |-> <<>>, pre |-> <<>>, sep |-> <<>>, post |-> <<>>],
     [kind |-> "dropgroup1", pat |-> <<"\\", "e", "n", "d", "{">>, mid |-> <<>>, pre |-> <<>>, sep |-> <<>>, post |-> <<>>],
     [kind |-> "lit", pat |-> <<"\\", "a", "l", "i", "g", "n">>, mid |-> <<>>, pre |-> <<>>, sep |-> <<>>, post |-> <<>>],
     [kind |-> "lit", pat |-> <<"\\", ",">>, mid |-> <<>>, pre |-> <<>>, sep |-> <<>>, post |-> <<" ">>],
     [kind |-> "lit", pat |-> <<"\\", "a", "p", "p", "r", "o", "x">>, mid |-> <<>>, pre |-> <<>>, sep |-> <<>>, post |-> <<"U+2248">>],
     [kind |-> "lit", pat |-> <<"\\", "f", "o", "r", "a", "l", "l">>, mid |-> <<>>, pre |-> <<>>, sep |-> <<>>, post |-> <<"f", "o", "r", " ", "a", "l", "l">>],
     [kind |-> "lit", pat |-> <<"\\", "n", "e", "q">>, mid |-> <<>>, pre |-> <<>>, sep |-> <<>>, post |-> <<"U+2260">>],
     [kind |-> "lit", pat |-> <<"\\", "l", "e", "f", "t">>, mid |-> <<>>, pre |-> <<>>, sep |-> <<>>, post |-> <<>>],
     [kind |-> "lit", pat |-> <<"\\", "r", "i", "g", "h", "t">>, mid |-> <<>>, pre |-> <<>>, sep |-> <<>>, post |-> <<>>],
     [kind |-> "unescapeany", pat |-> <<"\\", "_">>, mid |-> <<>>, pre |-> <<>>, sep |-> <<>>, post |-> <<>>],
     [kind |-> "unescape", pat |-> <<"\\", "_">>, mid |-> <<>>, pre |-> <<>>, sep |-> <<>>, post |-> <<>>],
     [kind |-> "lit", pat |-> <<"$", "$">>, mid |-> <<>>, pre |-> <<>>, sep |-> <<>>, post |-> <<>>],
     [kind |-> "lit", pat |-> <<"\\", "[">>, mid |-> <<>>, pre |-> <<>>, sep |-> <<>>, post |-> <<>>],
     [kind |-> "lit", pat |-> <<"\\", "]">>, mid |-> <<>>, pre |-> <<>>, sep |-> <<>>, post |-> <<>>],
     [kind |-> "lit", pat |-> <<"{">>, mid |-> <<>>, pre |-> <<>>, sep |-> <<>>, post |-> <<>>],
     [kind |-> "lit", pat |-> <<"}">>, mid |-> <<>>, pre |-> <<>>, sep |-> <<>>, post |-> <<>>],
     [kind |-> "unescape", pat |-> <<"\\", "(">>, mid |-> <<>>, pre |-> <<>>, sep |-> <<>>, post |-> <<>>],
     [kind |-> "unescape", pat |-> <<"\\", ")">>, mid |-> <<>>, pre |-> <<>>, sep |-> <<>>, post |-> <<>>] >>

\* part_007: the chain of the return statement
part007Rules ==
  << [kind |-> "power", pat |-> <<"^", "2">>, mid |-> <<>>, pre |-> <<>>, sep |-> <<>>, post |-> <<"U+00B2">>],
     [kind |-> "power", pat |-> <<"^", "3">>, mid |-> <<>>, pre |-> <<>>, sep |-> <<>>, post |-> <<"U+00B3">>],
     [kind |-> "supletter", pat |-> <<"^">>, mid |-> <<>>, pre |-> <<>>, sep |-> <<>>, post |-> <<>>],
     [kind |-> "supparen", pat |-> <<"^", "(">>, mid |-> <<>>, pre |-> <<>>, sep |-> <<>>, post |-> <<>>],
     [kind |-> "logdigits", pat |-> <<"\\", "l", "o", "g", "_">>, mid |-> <<>>, pre |-> <<"l", "o", "g", "<sub>">>, sep |-> <<>>, post |-> <<"</sub>">>],
     [kind |-> "logletter", pat |-> <<"\\", "l", "o", "g", "_">>, mid |-> <<>>, pre |-> <<"l", "o", "g", "<sub>">>, sep |-> <<>>, post |-> <<"</sub>">>],
     [kind |-> "wordlit", pat |-> <<"\\", "l", "o", "g">>, mid |-> <<>>, pre |-> <<>>, sep |-> <<>>, post |-> <<"l", "o", "g">>],
     [kind |-> "lit", pat |-> <<"_", "{", "-">>, mid |-> <<>>, pre |-> <<>>, sep |-> <<>>, post |-> <<"_", "{">>],
     [kind |-> "lit", pat |-> <<"*">>, mid |-> <<>>, pre |-> <<>>, sep |-> <<>>, post |-> <<"U+00D7">>],
     [kind |-> "lit", pat |-> <<"\\", "t", "i", "m", "e", "s">>, mid |-> <<>>, pre |-> <<>>, sep |-> <<>>, post |-> <<"U+00D7">>],
     [kind |-> "lit", pat |-> <<"\\", "d", "i", "v">>, mid |-> <<>>, pre |-> <<>>, sep |-> <<>>, post |-> <<"U+00F7">>],
     [kind |-> "lit", pat |-> <<"\n">>, mid |-> <<>>, pre |-> <<>>, sep |-> <<>>, post |-> <<"<br>">>] >>

formatSolution007(solution) ==
  LET cleanSolution == ReplaceChain(part007CleanRules, solution)
  IN ReplaceChain(part007Rules, cleanSolution)

\* formatSolution of the client c
formatSolution(c, solution) ==
  CASE c = "script.js" -> formatSolutionScript(solution)
    [] c = "part_006" -> formatSolution006(solution)
    [] c = "part_007" -> formatSolution007(solution)

\* the pieces the solution texts are put together from
Pieces ==
  { <<"\\">>, <<"_">>, <<" ">>, <<"$">>, <<"}">>, <<"5">>, <<"^">>, <<"/">>,
    <<"\\", "b", "o", "x", "e", "d", "{">>, <<"\\", "m", "a", "t", "h", "b", "f", "{">> }

RECURSIVE SolutionsUpTo(_)
SolutionsUpTo(n) ==
  IF n = 0 THEN {<<>>}
  ELSE LET shorter == SolutionsUpTo(n - 1)
       IN shorter \cup {s \o p : s \in shorter, p \in Pieces}

Solutions == SolutionsUpTo(MaxPieces)

Clients == {"script.js", "part_006"}

FormatIdle ==
  /\ client = "script.js"
  /\ fPc = "idle"
  /\ fSolution = <<>>
  /\ fOnce = <<>>
  /\ fTwice = <<>>

FormatInit ==
  /\ client \in Clients
  /\ fPc = "input"
  /\ fSolution \in Solutions
  /\ fOnce = <<>>
  /\ fTwice = <<>>

\* the texts of at most n pieces
RECURSIVE TextsFrom(_, _)
TextsFrom(pieces, n) ==
  IF n = 0 THEN {<<>>}
  ELSE LET shorter == TextsFrom(pieces, n - 1)
       IN shorter \cup {s \o p : s \in shorter, p \in pieces}

\* the pieces of the texts with exponents
ExponentPieces ==
  { <<"x">>, <<"^">>, <<"q">>, <<"n">>, <<"Q">>, <<"2">>, <<"(">>, <<")">> }

\* part_007 formats a solution text with exponents
ExponentInit ==
  /\ client = "part_007"
  /\ fPc = "input"
  /\ fSolution \in TextsFrom(ExponentPieces, MaxPieces)
  /\ fOnce = <<>>
  /\ fTwice = <<>>

\* displaySolution: formatSolution(data.solution)
FormatSolution ==
  /\ fPc = "input"
  /\ fPc' = "once"
  /\ fOnce' = formatSolution(client, fSolution)
  /\ UNCHANGED <<client, fSolution, fTwice>>
  /\ UNCHANGED exceptFormat

\* formatSolution applied to its own output
FormatAgain ==
  /\ fPc = "once"
  /\ fPc' = "twice"
  /\ fTwice' = formatSolution(client, fOnce)
  /\ UNCHANGED <<client, fSolution, fOnce>>
  /\ UNCHANGED exceptFormat

(***************************************************************************)
(* part_003: the image requests of /api/solve and /api/ocr-preview.  Each  *)
(* writes its upload to a temporary file named after Date.now() and calls  *)
(* extractTextFromImage(tempPath), which reads the file, rewrites it with  *)
(* the enhanced image, sends it to the recognition model and unlinks it.   *)
(***************************************************************************)
Uploaders == 1..NumUploads

Endpoints == {"solve", "preview"}

\* path.join(__dirname, 'uploads', `upload_${Date.now()}.jpg`), resp. preview_
tempPath(endpoint, ms) == <<IF endpoint = "solve" THEN "upload_" ELSE "preview_", ms>>

NoPath == <<"none", 0>>

\* generated_text of the recognition reply; <<>> when the reply has none
UploadRawTexts == {<<>>, TwoX}

NoUploadResp ==
  [status |-> 0, error |-> <<>>, raw |-> Undefined, cleaned |-> Undefined,
   corrected |-> Undefined, problem |-> Undefined]

UploadIdle ==
  /\ uClock = 0
  /\ files = << >>
  /\ uPc = [r \in Uploaders |-> "idle"]
  /\ uEndpoint = [r \in Uploaders |-> "solve"]
  /\ uPath = [r \in Uploaders |-> NoPath]
  /\ uSent = [r \in Uploaders |-> 0]
  /\ uRaw = [r \in Uploaders |-> Undefined]
  /\ uPost = [r \in Uploaders |-> Undefined]
  /\ uResp = [r \in Uploaders |-> NoUploadResp]
  /\ clobbered = {}

\* fs.writeFileSync(path, data of request r)
writeFile(fs, path, r, enhanced) ==
  [p \in (DOMAIN fs) \cup {path} |->
     IF p = path THEN [owner |-> r, enhanced |-> enhanced] ELSE fs[p]]

\* fs.unlinkSync(path) on an existing file
unlinkFile(fs, path) == [p \in (DOMAIN fs) \ {path} |-> fs[p]]

\* the record of request r writing or unlinking path when the file there is
\* another request's
Clobbers(fs, path, r, op) ==
  IF path \in DOMAIN fs /\ fs[path].owner # r
  THEN {[by |-> r, victim |-> fs[path].owner, op |-> op]} ELSE {}

\* the catch of the handler: res.status(500).json({ error: error.message })
UploadFails(r, message) ==
  /\ uPc' = [uPc EXCEPT ![r] = "done"]
  /\ uResp' = [uResp EXCEPT ![r] = [NoUploadResp EXCEPT !.status = 500, !.error = message]]

\* the handler up to its first await: the upload is written to tempPath and
\* extractTextFromImage reads it back and starts sharp
UploadReceive(r) ==
  /\ uPc[r] = "idle"
  /\ \E endpoint \in Endpoints :
       LET path == tempPath(endpoint, uClock)
       IN /\ uEndpoint' = [uEndpoint EXCEPT ![r] = endpoint]
          /\ uPath' = [uPath EXCEPT ![r] = path]
          /\ clobbered' = clobbered \cup Clobbers(files, path, r, "write")
          /\ files' = writeFile(files, path, r, FALSE)
          /\ uSent' = [uSent EXCEPT ![r] = writeFile(files, path, r, FALSE)[path].owner]
  /\ uPc' = [uPc EXCEPT ![r] = "sharp"]
  /\ UNCHANGED <<uClock, uRaw, uPost, uResp>>
  /\ UNCHANGED exceptUpload

\* sharp settles: the enhanced image is written to tempPath, read back as
\* base64 and posted to the recognition model
UploadSharpDone(r) ==
  /\ uPc[r] = "sharp"
  /\ \/ /\ UploadFails(r, ocrCatch("part_003", <<>>))
        /\ UNCHANGED <<files, clobbered>>
     \/ /\ clobbered' = clobbered \cup Clobbers(files, uPath[r], r, "write")
        /\ files' = writeFile(files, uPath[r], uSent[r], TRUE)
        /\ uPc' = [uPc EXCEPT ![r] = "recognize"]
        /\ UNCHANGED uResp
  /\ UNCHANGED <<uClock, uEndpoint, uPath, uSent, uRaw, uPost>>
  /\ UNCHANGED exceptUpload

\* the post to the recognition model settles: the file is unlinked, the
\* text post-processed and refineMathTextWithAI posts to the AI model
UploadRecognized(r) ==
  /\ uPc[r] = "recognize"
  /\ \/ /\ UploadFails(r, ocrCatch("part_003", <<>>))
        /\ UNCHANGED <<files, clobbered, uRaw, uPost>>
     \/ /\ uPath[r] \notin DOMAIN files
        /\ UploadFails(r, ocrCatch("part_003", <<>>))
        /\ UNCHANGED <<files, clobbered, uRaw, uPost>>
     \/ /\ uPath[r] \in DOMAIN files
        /\ clobbered' = clobbered \cup Clobbers(files, uPath[r], r, "unlink")
        /\ files' = unlinkFile(files, uPath[r])
        /\ \E rawText \in UploadRawTexts :
             /\ uRaw' = [uRaw EXCEPT ![r] = rawText]
             /\ uPost' = [uPost EXCEPT ![r] = postProcessMathText("part_003", rawText)]
        /\ uPc' = [uPc EXCEPT ![r] = "refine"]
        /\ UNCHANGED uResp
  /\ UNCHANGED <<uClock, uEndpoint, uPath, uSent>>
  /\ UNCHANGED exceptUpload

\* the post of refineMathTextWithAI settles and extractTextFromImage returns
\* or throws; /api/ocr-preview answers, /api/solve goes on to the solver
UploadRefined(r) ==
  /\ uPc[r] = "refine"
  /\ \E outcome \in FailureKinds \cup RefineContents :
       IF outcome \in FailureKinds \/ outcome = Undefined
       THEN UploadFails(r, ocrCatch("part_003", <<>>))
       ELSE LET text == Trim(outcome)
            IN IF uEndpoint[r] = "preview"
               THEN /\ uPc' = [uPc EXCEPT ![r] = "done"]
                    /\ uResp' = [uResp EXCEPT ![r] =
                                   [NoUploadResp EXCEPT !.status = 200, !.raw = text,
                                                        !.cleaned = text, !.corrected = text]]
               ELSE IF text = <<>>
               THEN /\ uPc' = [uPc EXCEPT ![r] = "done"]
                    /\ uResp' = [uResp EXCEPT ![r] =
                                   [NoUploadResp EXCEPT !.status = 400,
                                                        !.error = <<"No problem provided">>]]
               ELSE /\ uPc' = [uPc EXCEPT ![r] = "solver"]
                    /\ uResp' = [uResp EXCEPT ![r] = [NoUploadResp EXCEPT !.problem = text]]
  /\ UNCHANGED <<uClock, files, uEndpoint, uPath, uSent, uRaw, uPost, clobbered>>
  /\ UNCHANGED exceptUpload

\* solveMathProblem settles and /api/solve answers
UploadSolved(r) ==
  /\ uPc[r] = "solver"
  /\ \E status \in {200, 500} :
       uResp' = [uResp EXCEPT ![r] = [@ EXCEPT !.status = status]]
  /\ uPc' = [uPc EXCEPT ![r] = "done"]
  /\ UNCHANGED <<uClock, files, uEndpoint, uPath, uSent, uRaw, uPost, clobbered>>
  /\ UNCHANGED exceptUpload

\* the next millisecond
UploadTick ==
  /\ uClock < MaxMs
  /\ uClock' = uClock + 1
  /\ UNCHANGED <<files, uPc, uEndpoint, uPath, uSent, uRaw, uPost, uResp, clobbered>>
  /\ UNCHANGED exceptUpload

(***************************************************************************)
(* part_000: GET /check asks the first model "What is 2 + 2?" through      *)
(* tryModel and answers { ok, answer }, or in its catch                    *)
(* { ok: false, error: err.response?.data || err.message }.                *)
(***************************************************************************)
Checkers == 1..NumChecks

NoCheckResp == [status |-> 0, ok |-> FALSE, answer |-> Undefined, error |-> <<>>]

CheckIdle ==
  /\ checkPc = [k \in Checkers |-> "idle"]
  /\ checkResp = [k \in Checkers |-> NoCheckResp]

\* error.response.data of a failed post: the body the provider sent, as the
\* token "#payload" followed by its status and the word of its error.message
UpstreamPayload(o) == <<"#payload", ToString(o.status), o.errorMsg>>

IsUpstreamPayload(e) == Len(e) > 0 /\ e[1] = "#payload"

\* err.response?.data || err.message in the catch of /check; an error
\* without a response (status 0) has only its message
checkError(o) == IF o.status # 0 THEN UpstreamPayload(o) ELSE AxiosError(o).message

CheckCall(k) ==
  /\ checkPc[k] = "idle"
  /\ checkPc' = [checkPc EXCEPT ![k] = "awaiting"]
  /\ UNCHANGED checkResp
  /\ UNCHANGED exceptCheck

\* the post of tryModel(models[0], ...) settles and /check answers
CheckSettles(k) ==
  /\ checkPc[k] = "awaiting"
  /\ \E o \in VisionOutcomes :
       checkResp' = [checkResp EXCEPT ![k] =
         IF o.ok /\ o.content # Undefined
         THEN [NoCheckResp EXCEPT !.status = 200, !.ok = TRUE, !.answer = o.content]
         ELSE IF o.ok
         THEN [NoCheckResp EXCEPT !.status = 500,
                 !.error = <<"Cannot read properties of undefined (reading '0')">>]
         ELSE [NoCheckResp EXCEPT !.status = 500, !.error = checkError(o)]]
  /\ checkPc' = [checkPc EXCEPT ![k] = "done"]
  /\ UNCHANGED exceptCheck

(***************************************************************************)
(* The Tesseract worker.  server.js creates one in the background task     *)
(* initializeWorker(), which the listen callback starts; /api/solve and    *)
(* /api/ocr-preview call ocrWorker.recognize on it and the SIGTERM handler *)
(* terminates it.  part_000 has extractTextFromImage create, initialize    *)
(* and terminate a worker of its own.                                      *)
(***************************************************************************)
ImageReq == 1..NumImageReq

\* the awaits of initializeWorker(), in order
initSteps == <<"createWorker", "loadLanguage", "initialize", "setParameters">>

\* the awaits of part_000's extractTextFromImage, in order
localSteps == <<"createWorker", "loadLanguage", "initialize", "recognize", "terminate">>

\* the state a worker is in once the awaited call has resolved
stateAfter(step) ==
  CASE step = "createWorker" -> "created"
    [] step = "loadLanguage" -> "loaded"
    [] step = "initialize" -> "initialized"
    [] step = "setParameters" -> "configured"
    [] step = "recognize" -> "initialized"
    [] step = "terminate" -> "terminated"

StepAfter(steps, step) ==
  LET i == CHOOSE k \in 1..Len(steps) : steps[k] = step
  IN IF i < Len(steps) THEN steps[i + 1] ELSE "end"

NewWorker(by) == [state |-> "created", createdBy |-> by, terminatedBy |-> "nobody"]

WorkerIdle ==
  /\ wVariant = "server"
  /\ initPc = "createWorker"
  /\ ocrWorker = 0
  /\ wReady = FALSE
  /\ workers = <<>>
  /\ iPc = [r \in ImageReq |-> "idle"]
  /\ iEndpoint = [r \in ImageReq |-> "solve"]
  /\ iWorker = [r \in ImageReq |-> 0]
  /\ iStatus = [r \in ImageReq |-> 0]
  /\ sigPc = "none"
  /\ recognized = {}

WorkerInit ==
  /\ wVariant \in {"server", "part_000"}
  /\ initPc = IF wVariant = "server" THEN "createWorker" ELSE "none"
  /\ ocrWorker = 0
  /\ wReady = FALSE
  /\ workers = <<>>
  /\ iPc = [r \in ImageReq |-> "idle"]
  /\ iEndpoint = [r \in ImageReq |-> "solve"]
  /\ iWorker = [r \in ImageReq |-> 0]
  /\ iStatus = [r \in ImageReq |-> 0]
  /\ sigPc = "none"
  /\ recognized = {}

Running == sigPc # "exited"

\* initializeWorker(): the awaited call settles; the task goes on to its
\* next await, sets isWorkerReady after the last, or lands in its catch
WorkerInitStep ==
  /\ Running
  /\ wVariant = "server"
  /\ initPc \in {initSteps[k] : k \in 1..Len(initSteps)}
  /\ \E ok \in BOOLEAN :
       IF ~ok
       THEN /\ initPc' = "failed"
            /\ wReady' = FALSE
            /\ UNCHANGED <<ocrWorker, workers>>
       ELSE /\ IF initPc = "createWorker"
               THEN /\ workers' = Append(workers, NewWorker("initializeWorker"))
                    /\ ocrWorker' = Len(workers) + 1
               ELSE /\ workers' = [workers EXCEPT ![ocrWorker].state = stateAfter(initPc)]
                    /\ UNCHANGED ocrWorker
            /\ IF StepAfter(initSteps, initPc) = "end"
               THEN /\ initPc' = "ready"
                    /\ wReady' = TRUE
               ELSE /\ initPc' = StepAfter(initSteps, initPc)
                    /\ UNCHANGED wReady
  /\ UNCHANGED <<wVariant, iPc, iEndpoint, iWorker, iStatus, sigPc, recognized>>
  /\ UNCHANGED exceptWorker

\* server.js, an image request of /api/solve or /api/ocr-preview up to its
\* first await: 503 while isWorkerReady is false, else sharp is started
ImageReceive(r) ==
  /\ Running
  /\ wVariant = "server"
  /\ iPc[r] = "idle"
  /\ \E endpoint \in Endpoints : iEndpoint' = [iEndpoint EXCEPT ![r] = endpoint]
  /\ IF ~wReady
     THEN /\ iPc' = [iPc EXCEPT ![r] = "done"]
          /\ iStatus' = [iStatus EXCEPT ![r] = 503]
     ELSE /\ iPc' = [iPc EXCEPT ![r] = "sharp"]
          /\ UNCHANGED iStatus
  /\ UNCHANGED <<wVariant, initPc, ocrWorker, wReady, workers, iWorker, sigPc, recognized>>
  /\ UNCHANGED exceptWorker

\* server.js: sharp settles and the handler calls ocrWorker.recognize
ImageSharpDone(r) ==
  /\ Running
  /\ wVariant = "server"
  /\ iPc[r] = "sharp"
  /\ \/ /\ iPc' = [iPc EXCEPT ![r] = "done"]
        /\ iStatus' = [iStatus EXCEPT ![r] = 500]
        /\ UNCHANGED recognized
     \/ /\ iPc' = [iPc EXCEPT ![r] = "recognize"]
        /\ recognized' = recognized \cup {[req |-> r, state |-> workers[ocrWorker].state]}
        /\ UNCHANGED iStatus
  /\ UNCHANGED <<wVariant, initPc, ocrWorker, wReady, workers, iEndpoint, iWorker, sigPc>>
  /\ UNCHANGED exceptWorker

\* server.js: recognize settles and the handler goes on
ImageRecognized(r) ==
  /\ Running
  /\ wVariant = "server"
  /\ iPc[r] = "recognize"
  /\ iPc' = [iPc EXCEPT ![r] = "done"]
  /\ \E status \in {0, 500} : iStatus' = [iStatus EXCEPT ![r] = status]
  /\ UNCHANGED <<wVariant, initPc, ocrWorker, wReady, workers, iEndpoint, iWorker, sigPc,
                 recognized>>
  /\ UNCHANGED exceptWorker

\* process.on('SIGTERM'): terminate() is called on a ready worker and
\* awaited; without one the process exits at once
Sigterm ==
  /\ wVariant = "server"
  /\ sigPc = "none"
  /\ IF ocrWorker # 0 /\ wReady
     THEN /\ sigPc' = "terminating"
          /\ workers' = [workers EXCEPT ![ocrWorker].state = "terminating",
                                        ![ocrWorker].terminatedBy = "SIGTERM"]
     ELSE /\ sigPc' = "exited"
          /\ UNCHANGED workers
  /\ UNCHANGED <<wVariant, initPc, ocrWorker, wReady, iPc, iEndpoint, iWorker, iStatus,
                 recognized>>
  /\ UNCHANGED exceptWorker

\* terminate() settles and the handler calls process.exit(0)
SigtermExit ==
  /\ sigPc = "terminating"
  /\ sigPc' = "exited"
  /\ workers' = [workers EXCEPT ![ocrWorker].state = "terminated"]
  /\ UNCHANGED <<wVariant, initPc, ocrWorker, wReady, iPc, iEndpoint, iWorker, iStatus,
                 recognized>>
  /\ UNCHANGED exceptWorker

\* part_000, an image request of /api/solve up to its first await:
\* extractTextFromImage calls createWorker()
LocalReceive(r) ==
  /\ wVariant = "part_000"
  /\ iPc[r] = "idle"
  /\ iPc' = [iPc EXCEPT ![r] = "createWorker"]
  /\ UNCHANGED <<wVariant, initPc, ocrWorker, wReady, workers, iEndpoint, iWorker, iStatus,
                 sigPc, recognized>>
  /\ UNCHANGED exceptWorker

\* part_000: the awaited call of extractTextFromImage settles; the function
\* makes its next call on its worker, returns after terminate(), or throws
LocalStep(r) ==
  /\ wVariant = "part_000"
  /\ iPc[r] \in {localSteps[k] : k \in 1..Len(localSteps)}
  /\ \E ok \in BOOLEAN :
       IF ~ok
       THEN /\ iPc' = [iPc EXCEPT ![r] = "done"]
            /\ iStatus' = [iStatus EXCEPT ![r] = 500]
            /\ UNCHANGED <<workers, iWorker, recognized>>
       ELSE LET next == StepAfter(localSteps, iPc[r])
                w == IF iPc[r] = "createWorker" THEN Len(workers) + 1 ELSE iWorker[r]
                settled == IF iPc[r] = "createWorker"
                           THEN Append(workers, NewWorker("request"))
                           ELSE [workers EXCEPT ![w].state = stateAfter(iPc[r])]
            IN /\ iWorker' = [iWorker EXCEPT ![r] = w]
               /\ iPc' = [iPc EXCEPT ![r] = IF next = "end" THEN "done" ELSE next]
               /\ workers' = IF next = "terminate"
                             THEN [settled EXCEPT ![w].state = "terminating",
                                                  ![w].terminatedBy = "request"]
                             ELSE settled
               /\ recognized' = IF next = "recognize"
                                THEN recognized \cup {[req |-> r, state |-> settled[w].state]}
                                ELSE recognized
               /\ UNCHANGED iStatus
  /\ UNCHANGED <<wVariant, initPc, ocrWorker, wReady, iEndpoint, sigPc>>
  /\ UNCHANGED exceptWorker

(***************************************************************************)
(* The sharp(...).resize(options) calls.  sharp scales the image to the    *)
(* target box; with one dimension given the other follows the aspect       *)
(* ratio, and only withoutEnlargement keeps a smaller image as it is.      *)
(***************************************************************************)
ResizeSites == {"extractTextFromImageWithAI", "extractTextFromImage", "ocr-preview", "part_003"}

\* the options object of each call; height 0 stands for no height
resizeOptions(site) ==
  CASE site = "extractTextFromImageWithAI" ->
         [width |-> 800, height |-> 800, fit |-> "inside", withoutEnlargement |-> TRUE]
    [] site = "extractTextFromImage" ->
         [width |-> 1200, height |-> 1200, fit |-> "inside", withoutEnlargement |-> TRUE]
    [] site = "ocr-preview" ->
         [width |-> 1200, height |-> 0, fit |-> "inside", withoutEnlargement |-> FALSE]
    [] site = "part_003" ->
         [width |-> 1000, height |-> 0, fit |-> "cover", withoutEnlargement |-> FALSE]

\* a * b / c rounded to the nearest integer
RoundDiv(a, b, c) == (2 * a * b + c) \div (2 * c)

\* the dimensions sharp produces for an image of the given size
resize(options, image) ==
  LET w == image.width
      h == image.height
      W == options.width
      H == options.height
      scaled == IF H = 0 \/ W * h <= H * w
                THEN [width |-> W, height |-> RoundDiv(h, W, w)]
                ELSE [width |-> RoundDiv(w, H, h), height |-> H]
      enlarges == scaled.width > w \/ scaled.height > h
  IN IF options.withoutEnlargement /\ enlarges THEN image ELSE scaled

ImageWidths == {400, 800, 1000, 1600, 2400}

NoImage == [width |-> 0, height |-> 0]

ResizeIdle ==
  /\ zPc = "idle"
  /\ zSite = "ocr-preview"
  /\ zIn = NoImage
  /\ zOut = NoImage

ResizeInit ==
  /\ zPc = "input"
  /\ zSite \in ResizeSites
  /\ zIn \in [width : ImageWidths, height : ImageWidths]
  /\ zOut = NoImage

Resize ==
  /\ zPc = "input"
  /\ zPc' = "done"
  /\ zOut' = resize(resizeOptions(zSite), zIn)
  /\ UNCHANGED <<zSite, zIn>>
  /\ UNCHANGED exceptResize

(***************************************************************************)
(* public/script.js: the click handler solveProblem with showLoading and   *)
(* clearInputs, and what the user can do to the page meanwhile.  A click   *)
(* reaches the handler only while the button is enabled.                   *)
(***************************************************************************)
Calls == 1..NumCalls

\* what the user types into problemInput
TypedTexts == {<<>>, <<" ">>, <<"a">>}

\* the ends of a call that sent a request
RequestEnds == {"success", "notok", "network", "badjson", "display"}

BrowserIdle ==
  /\ bPc = [a \in Calls |-> "idle"]
  /\ bLast = [a \in Calls |-> "none"]
  /\ bProblem = <<>>
  /\ bFile = FALSE
  /\ bReading = FALSE
  /\ bPreview = FALSE
  /\ bDisabled = FALSE
  /\ bLoader = FALSE
  /\ bOutput = "empty"

\* the page as loaded: the loader's first display comes from the page's
\* style sheet
BrowserInit ==
  /\ bPc = [a \in Calls |-> "idle"]
  /\ bLast = [a \in Calls |-> "none"]
  /\ bProblem = <<>>
  /\ bFile = FALSE
  /\ bReading = FALSE
  /\ bPreview = FALSE
  /\ bDisabled = FALSE
  /\ bLoader \in BOOLEAN
  /\ bOutput = "empty"

\* showLoading with the button left alone
showLoadingLoaderOnly(show) == [loader |-> show, disabled |-> FALSE]

\* loader.style.display = show ? 'block' : 'none'; solveBtn.disabled = show
showLoading(show) == [loader |-> show, disabled |-> show]

\* the user edits the problem text
TypeProblem ==
  /\ \E text \in TypedTexts : bProblem' = text
  /\ UNCHANGED <<bPc, bLast, bFile, bReading, bPreview, bDisabled, bLoader, bOutput>>
  /\ UNCHANGED exceptBrowser

\* the change event of imageUpload: handleImageUpload starts a FileReader
\* on a chosen file and empties problemInput
handleImageUpload ==
  /\ \E chosen \in BOOLEAN :
       /\ bFile' = chosen
       /\ bReading' = (bReading \/ chosen)
       /\ bProblem' = IF chosen THEN <<>> ELSE bProblem
  /\ UNCHANGED <<bPc, bLast, bPreview, bDisabled, bLoader, bOutput>>
  /\ UNCHANGED exceptBrowser

\* reader.onload: the preview is displayed
ReaderLoaded ==
  /\ bReading
  /\ bReading' = FALSE
  /\ bPreview' = TRUE
  /\ UNCHANGED <<bPc, bLast, bProblem, bFile, bDisabled, bLoader, bOutput>>
  /\ UNCHANGED exceptBrowser

\* a click on the enabled button: solveProblem up to its first await
Click(a) ==
  /\ ~bDisabled
  /\ bPc[a] = "idle"
  /\ IF Trim(bProblem) = <<>> /\ ~bFile
     THEN /\ bLast' = [bLast EXCEPT ![a] = "rejected"]
          /\ UNCHANGED <<bPc, bDisabled, bLoader, bOutput>>
     ELSE /\ bLoader' = showLoading(TRUE).loader
          /\ bDisabled' = showLoading(TRUE).disabled
          /\ bOutput' = "empty"
          /\ bPc' = [bPc EXCEPT ![a] = "fetch"]
          /\ bLast' = [bLast EXCEPT ![a] = "none"]
  /\ UNCHANGED <<bProblem, bFile, bReading, bPreview>>
  /\ UNCHANGED exceptBrowser

\* the catch and the finally of solveProblem
CallFails(a, how) ==
  /\ bOutput' = "error"
  /\ bLoader' = showLoading(FALSE).loader
  /\ bDisabled' = showLoading(FALSE).disabled
  /\ bPc' = [bPc EXCEPT ![a] = "idle"]
  /\ bLast' = [bLast EXCEPT ![a] = how]
  /\ UNCHANGED <<bProblem, bFile, bReading, bPreview>>

\* fetch settles: it rejects, or the response is ok or not
FetchSettles(a) ==
  /\ bPc[a] = "fetch"
  /\ \/ CallFails(a, "network")
     \/ /\ \E next \in {"text", "json"} : bPc' = [bPc EXCEPT ![a] = next]
        /\ UNCHANGED <<bLast, bProblem, bFile, bReading, bPreview, bDisabled, bLoader,
                       bOutput>>
  /\ UNCHANGED exceptBrowser

\* response.text() of a response that is not ok settles; the call throws
TextSettles(a) ==
  /\ bPc[a] = "text"
  /\ CallFails(a, "notok")
  /\ UNCHANGED exceptBrowser

\* response.json() settles: displaySolution, clearInputs and the finally,
\* or the catch when the body does not parse or displaySolution throws
JsonSettles(a) ==
  /\ bPc[a] = "json"
  /\ \/ CallFails(a, "badjson")
     \/ CallFails(a, "display")
     \/ /\ bOutput' = "solution"
        /\ bProblem' = <<>>
        /\ bFile' = FALSE
        /\ bPreview' = FALSE
        /\ bLoader' = showLoading(FALSE).loader
        /\ bDisabled' = showLoading(FALSE).disabled
        /\ bPc' = [bPc EXCEPT ![a] = "idle"]
        /\ bLast' = [bLast EXCEPT ![a] = "success"]
        /\ UNCHANGED bReading
  /\ UNCHANGED exceptBrowser

(***************************************************************************)
(* getCachedSolution called several times with problems of one cache key.  *)
(* A call runs from its cache.get to its await of solverFn() in one step   *)
(* and from the settling of solverFn() to its return in another; the calls *)
(* interleave at the await.                                                *)
(***************************************************************************)
Callers == 1..NumCallers

RaceKey == getCacheKey(<<"a">>)

\* the problem texts of the one key
RaceTexts == {t \in BodyTexts : t # Undefined /\ getCacheKey(t) = RaceKey}

\* what solverFn() resolves with
RaceSolutions == {format("server", content) : content \in Contents \ {Undefined}}

NoCall == [state |-> "none", value |-> Undefined]
NoSet == [by |-> 0, value |-> Undefined, at |-> 0]

RaceIdle ==
  /\ callPc = [c \in Callers |-> "idle"]
  /\ callProblem = [c \in Callers |-> Undefined]
  /\ callResult = [c \in Callers |-> NoCall]
  /\ lastSet = NoSet

\* getCachedSolution(problem, solverFn) up to its await
GetCachedSolution(c) ==
  /\ callPc[c] = "idle"
  /\ \E text \in RaceTexts :
       LET key == getCacheKey(text)
           cached == cacheGet(cache, key, now)
       IN /\ callProblem' = [callProblem EXCEPT ![c] = text]
          /\ cache' = cacheAfterGet(cache, key, now)
          /\ IF Truthy(cached)
             THEN /\ callPc' = [callPc EXCEPT ![c] = "done"]
                  /\ callResult' = [callResult EXCEPT ![c] = [state |-> "cached", value |-> cached]]
             ELSE /\ callPc' = [callPc EXCEPT ![c] = "solver"]
                  /\ UNCHANGED callResult
  /\ UNCHANGED <<now, lastSet>>
  /\ UNCHANGED exceptRace

\* solverFn() settles: getCachedSolution stores what it resolved with and
\* returns it, or lets its rejection through
SolverSettles(c) ==
  /\ callPc[c] = "solver"
  /\ \E resolved \in BOOLEAN, solution \in RaceSolutions :
       LET key == getCacheKey(callProblem[c])
       IN /\ cache' = cacheAfterSolver(cache, key, resolved, solution, now)
          /\ callResult' = [callResult EXCEPT ![c] =
                              IF resolved THEN [state |-> "solved", value |-> solution]
                              ELSE [state |-> "threw", value |-> Undefined]]
          /\ lastSet' = IF resolved THEN [by |-> c, value |-> solution, at |-> now]
                        ELSE lastSet
  /\ callPc' = [callPc EXCEPT ![c] = "done"]
  /\ UNCHANGED <<now, callProblem>>
  /\ UNCHANGED exceptRace

\* time passes between the steps of the calls
RaceTick ==
  /\ now + TickStep <= MaxTime
  /\ now' = now + TickStep
  /\ UNCHANGED <<cache, raceVars>>
  /\ UNCHANGED exceptRace

(***************************************************************************)
(* Specifications.                                                         *)
(***************************************************************************)
Init ==
  /\ variant = "server"
  /\ SolveInit
  /\ KeyIdle
  /\ VisionIdle
  /\ ChainIdle
  /\ OcrIdle
  /\ RaceIdle
  /\ BrowserIdle
  /\ ResizeIdle
  /\ WorkerIdle
  /\ CheckIdle
  /\ UploadIdle
  /\ FormatIdle

Next ==
  \/ \E r \in Req : Receive(r)
  \/ \E r \in Req : OcrReply(r)
  \/ \E r \in Req : ModelReply(r)
  \/ \E r \in Req : Forget(r)
  \/ InitializeWorker
  \/ Tick

Spec == Init /\ [][Next]_vars

\* the older server files, which have no shared OCR worker
VariantsInit ==
  /\ variant \in {"part_000", "part_003"}
  /\ SolveInit
  /\ KeyIdle
  /\ VisionIdle
  /\ ChainIdle
  /\ OcrIdle
  /\ RaceIdle
  /\ BrowserIdle
  /\ ResizeIdle
  /\ WorkerIdle
  /\ CheckIdle
  /\ UploadIdle
  /\ FormatIdle

VariantsNext ==
  \/ \E r \in Req : Receive(r)
  \/ \E r \in Req : OcrReply(r)
  \/ \E r \in Req : ModelReply(r)
  \/ \E r \in Req : Forget(r)
  \/ Tick

SpecVariants == VariantsInit /\ [][VariantsNext]_vars

SolveIdle ==
  /\ variant = "server"
  /\ SolveInit

KeySpecInit == SolveIdle /\ KeyInit /\ VisionIdle /\ ChainIdle /\ OcrIdle /\ RaceIdle /\ BrowserIdle /\ ResizeIdle /\ WorkerIdle /\ CheckIdle /\ UploadIdle /\ FormatIdle

KeyNext == DeriveKeys

SpecKey == KeySpecInit /\ [][KeyNext]_vars

VisionSpecInit == SolveIdle /\ KeyIdle /\ VisionInit /\ ChainIdle /\ OcrIdle /\ RaceIdle /\ BrowserIdle /\ ResizeIdle /\ WorkerIdle /\ CheckIdle /\ UploadIdle /\ FormatIdle

VisionNext ==
  \/ VisionStart
  \/ SharpDone
  \/ VisionReply

SpecVision == VisionSpecInit /\ [][VisionNext]_vars

\* one fallback chain per run: the solver models of server.js, its vision
\* models, or the three solvers of part_004
Part004Idle ==
  /\ gPc = "idle"
  /\ gAttempts = <<>>
  /\ gResp = NoResp004

ChainsInit ==
  \/ /\ chain = "solver"
     /\ variant = "server" /\ SolveInit /\ KeyIdle /\ VisionIdle /\ Part004Idle /\ OcrIdle /\ RaceIdle /\ BrowserIdle /\ ResizeIdle /\ WorkerIdle /\ CheckIdle /\ UploadIdle /\ FormatIdle
  \/ /\ chain = "vision"
     /\ SolveIdle /\ KeyIdle /\ VisionInit /\ Part004Idle /\ OcrIdle /\ RaceIdle /\ BrowserIdle /\ ResizeIdle /\ WorkerIdle /\ CheckIdle /\ UploadIdle /\ FormatIdle
  \/ /\ chain = "part_004"
     /\ SolveIdle /\ KeyIdle /\ VisionIdle /\ Part004Idle /\ OcrIdle /\ RaceIdle /\ BrowserIdle /\ ResizeIdle /\ WorkerIdle /\ CheckIdle /\ UploadIdle /\ FormatIdle

ChainSolver(r) ==
  /\ chain = "solver"
  /\ \/ Receive(r)
     \/ ModelReply(r)
     \/ Forget(r)

ChainVision ==
  /\ chain = "vision"
  /\ \/ VisionStart
     \/ SharpDone
     \/ VisionReply

ChainsNext ==
  \/ \E r \in Req : ChainSolver(r)
  \/ ChainVision
  \/ PostSolve004
  \/ GptReply
  \/ WolframReply
  \/ NewtonReply
  \/ Forget004

SpecChains == ChainsInit /\ [][ChainsNext]_vars

\* extractTextFromImage on its own, in server.js (once initializeWorker has
\* settled) and in part_003
OcrSpecInit ==
  /\ variant \in {"server", "part_003"}
  /\ SolveInit
  /\ KeyIdle
  /\ VisionIdle
  /\ ChainIdle
  /\ OcrInit
  /\ RaceIdle
  /\ BrowserIdle
  /\ ResizeIdle
  /\ WorkerIdle
  /\ CheckIdle
  /\ UploadIdle
  /\ FormatIdle

OcrNext ==
  \/ InitializeWorker
  \/ OcrStart
  \/ OcrSharpDone
  \/ OcrRecognized
  \/ OcrRefined

SpecOcr == OcrSpecInit /\ [][OcrNext]_vars

\* concurrent getCachedSolution calls on one key, server.js
RaceInit ==
  /\ variant = "server"
  /\ SolveInit
  /\ KeyIdle
  /\ VisionIdle
  /\ ChainIdle
  /\ OcrIdle
  /\ RaceIdle
  /\ BrowserIdle
  /\ ResizeIdle
  /\ WorkerIdle
  /\ CheckIdle
  /\ UploadIdle
  /\ FormatIdle

RaceNext ==
  \/ \E c \in Callers : GetCachedSolution(c)
  \/ \E c \in Callers : SolverSettles(c)
  \/ RaceTick

SpecRace == RaceInit /\ [][RaceNext]_vars

\* formatSolution of the clients alone
FormatSpecInit ==
  /\ SolveIdle
  /\ KeyIdle
  /\ VisionIdle
  /\ ChainIdle
  /\ OcrIdle
  /\ RaceIdle
  /\ BrowserIdle
  /\ ResizeIdle
  /\ WorkerIdle
  /\ CheckIdle
  /\ UploadIdle
  /\ FormatInit

FormatNext ==
  \/ FormatSolution
  \/ FormatAgain

SpecFormat == FormatSpecInit /\ [][FormatNext]_vars

\* formatSolution of part_007 on texts with exponents
ExponentSpecInit ==
  /\ SolveIdle
  /\ KeyIdle
  /\ VisionIdle
  /\ ChainIdle
  /\ OcrIdle
  /\ RaceIdle
  /\ BrowserIdle
  /\ ResizeIdle
  /\ WorkerIdle
  /\ CheckIdle
  /\ UploadIdle
  /\ ExponentInit

SpecExponent == ExponentSpecInit /\ [][FormatNext]_vars

\* the image requests of part_003
UploadSpecInit ==
  /\ variant = "part_003"
  /\ SolveInit
  /\ KeyIdle
  /\ VisionIdle
  /\ ChainIdle
  /\ OcrIdle
  /\ RaceIdle
  /\ BrowserIdle
  /\ ResizeIdle
  /\ WorkerIdle
  /\ CheckIdle
  /\ UploadIdle
  /\ FormatIdle

UploadNext ==
  \/ \E r \in Uploaders : UploadReceive(r)
  \/ \E r \in Uploaders : UploadSharpDone(r)
  \/ \E r \in Uploaders : UploadRecognized(r)
  \/ \E r \in Uploaders : UploadRefined(r)
  \/ \E r \in Uploaders : UploadSolved(r)
  \/ UploadTick

SpecUpload == UploadSpecInit /\ [][UploadNext]_vars

\* GET /check of part_000
CheckSpecInit ==
  /\ SolveIdle
  /\ KeyIdle
  /\ VisionIdle
  /\ ChainIdle
  /\ OcrIdle
  /\ RaceIdle
  /\ BrowserIdle
  /\ ResizeIdle
  /\ WorkerIdle
  /\ CheckIdle
  /\ UploadIdle
  /\ FormatIdle

CheckNext ==
  \/ \E k \in Checkers : CheckCall(k)
  \/ \E k \in Checkers : CheckSettles(k)

SpecCheck == CheckSpecInit /\ [][CheckNext]_vars

\* the OCR worker of server.js and of part_000
WorkerSpecInit ==
  /\ SolveIdle
  /\ KeyIdle
  /\ VisionIdle
  /\ ChainIdle
  /\ OcrIdle
  /\ RaceIdle
  /\ BrowserIdle
  /\ ResizeIdle
  /\ WorkerInit
  /\ CheckIdle
  /\ UploadIdle
  /\ FormatIdle

WorkerNext ==
  \/ WorkerInitStep
  \/ \E r \in ImageReq : ImageReceive(r)
  \/ \E r \in ImageReq : ImageSharpDone(r)
  \/ \E r \in ImageReq : ImageRecognized(r)
  \/ Sigterm
  \/ SigtermExit
  \/ \E r \in ImageReq : LocalReceive(r)
  \/ \E r \in ImageReq : LocalStep(r)

SpecWorker == WorkerSpecInit /\ [][WorkerNext]_vars

\* the resize calls on their own
ResizeSpecInit ==
  /\ SolveIdle
  /\ KeyIdle
  /\ VisionIdle
  /\ ChainIdle
  /\ OcrIdle
  /\ RaceIdle
  /\ BrowserIdle
  /\ ResizeInit
  /\ WorkerIdle
  /\ CheckIdle
  /\ UploadIdle
  /\ FormatIdle

ResizeNext == Resize

SpecResize == ResizeSpecInit /\ [][ResizeNext]_vars

\* the page of public/script.js
BrowserSpecInit ==
  /\ SolveIdle
  /\ KeyIdle
  /\ VisionIdle
  /\ ChainIdle
  /\ OcrIdle
  /\ RaceIdle
  /\ BrowserInit
  /\ ResizeIdle
  /\ WorkerIdle
  /\ CheckIdle
  /\ UploadIdle
  /\ FormatIdle

BrowserNext ==
  \/ TypeProblem
  \/ handleImageUpload
  \/ ReaderLoaded
  \/ \E a \in Calls : Click(a)
  \/ \E a \in Calls : FetchSettles(a)
  \/ \E a \in Calls : TextSettles(a)
  \/ \E a \in Calls : JsonSettles(a)

SpecBrowser == BrowserSpecInit /\ [][BrowserNext]_vars

\* the timeout option of the axios.post in tryModel, in milliseconds; 0 when
\* the call sets none (axios then waits without limit)
modelTimeout(v) == IF v = "server" THEN 30000 ELSE 0

\* the solver call of request r settles because its timeout, when it has
\* one, cuts it off at the latest
TimedModelReply(r) == modelTimeout(variant) > 0 /\ ModelReply(r)

\* server.js and part_000 with what their scheduling guarantees: a
\* response that is ready is delivered, and a call that has a timeout
\* settles.  A call without timeout settles only if the provider answers.
LiveInit ==
  /\ variant \in {"server", "part_000"}
  /\ SolveInit
  /\ KeyIdle
  /\ VisionIdle
  /\ ChainIdle
  /\ OcrIdle
  /\ RaceIdle
  /\ BrowserIdle
  /\ ResizeIdle
  /\ WorkerIdle
  /\ CheckIdle
  /\ UploadIdle
  /\ FormatIdle

SpecLive ==
  /\ LiveInit
  /\ [][Next]_vars
  /\ \A r \in Req : WF_vars(Forget(r))
  /\ \A r \in Req : WF_vars(TimedModelReply(r))

(***************************************************************************)
(* Properties.                                                             *)
(***************************************************************************)
Failed(a) == a.outcome # "success"

\* the formatting expected of the sample answers, written out
ExpectedFormat(content) ==
  IF content = BoldX THEN <<"<strong>", "x", "</strong>">>
  ELSE IF content = StepFinal
  THEN <<"<strong style=\"color:black\">", "S", "t", "e", "p", " ", "1", ":", " ", "x",
         "</strong>", "\n", "<strong style=\"color:green\">", "F", "i", "n", "a", "l", " ",
         "A", "n", "s", "w", "e", "r", ":", "</strong>">>
  ELSE content

\* the request has contacted a solver backend
Contacted(r) == pc[r] = "model" \/ attempts[r] # <<>>

\* C1: a solveMathProblem call that finds an unexpired entry for its key,
\* left by an earlier successful call, returns the stored solution and
\* contacts no solver backend, whatever the solution is.
C1_CacheHitReturnsStored ==
  \A r \in Req :
    (seen[r].looked /\ seen[r].live)
      => /\ ~Contacted(r)
         /\ solved[r].state = "returned"
         /\ solved[r].value = seen[r].v

\* C2: on a cache miss, when the first model fails and the second succeeds,
\* the call returns the second model's answer formatted, the request is
\* answered 200, and the first model's failure is in the log.
C2_SecondModelAnswer ==
  \A r \in Req :
    (/\ pc[r] = "done"
     /\ Len(attempts[r]) = 2
     /\ Failed(attempts[r][1])
     /\ ~Failed(attempts[r][2]))
      => /\ solved[r].state = "returned"
         /\ solved[r].value = ExpectedFormat(attempts[r][2].content)
         /\ resp[r].status = 200
         /\ resp[r].solution = solved[r].value
         /\ [req |-> r, level |-> "warn", model |-> models[1]] \in log

C2_Witness ==
  \E r \in Req :
    /\ pc[r] = "done"
    /\ Len(attempts[r]) = 2
    /\ attempts[r][1].outcome = "timeout"
    /\ attempts[r][2].outcome = "success"
    /\ attempts[r][2].content = BoldX
    /\ resp[r].status = 200

\* C3: solveMathProblem on a cache miss throws only after every model has
\* failed; once one model's call succeeds it returns a solution, however
\* the earlier models failed.
C3_FailsOnlyIfAllFail ==
  \A r \in Req :
    /\ solved[r].state = "threw"
         => /\ Len(attempts[r]) = Len(models)
            /\ \A i \in 1..Len(attempts[r]) : Failed(attempts[r][i])
    /\ (pc[r] = "done" /\ \E i \in 1..Len(attempts[r]) : ~Failed(attempts[r][i]))
         => /\ solved[r].state = "returned"
            /\ resp[r].status = 200

C3_Witness ==
  \E r \in Req :
    /\ pc[r] = "done"
    /\ Len(attempts[r]) = 2
    /\ attempts[r][1].outcome \in {"malformed", "TypeError"}
    /\ attempts[r][2].outcome = "success"
    /\ solved[r].state = "returned"

\* C4: when every model fails, the error solveMathProblem throws carries
\* the failure detail of the last model tried, in server.js, part_000 and
\* part_003.
C4_ExhaustionCarriesLastFailure ==
  \A r \in Req :
    solved[r].state = "threw"
      => LET last == attempts[r][Len(attempts[r])]
         IN solved[r].error = <<last.outcome, last.model>>

\* the value a live entry answers for key k at time t
LiveValue(c, k, t) == cacheGet(c, k, t)

CacheKeys == {getCacheKey(p) : p \in (BodyTexts \cup OcrTexts) \ {Undefined}}

\* C5: the step in which solveMathProblem fails with all backends failed
\* leaves the cache as it was, and the entries the cache answers change
\* only in a step in which a solver call returned (or time passed).
C5_FailureLeavesCache ==
  [][/\ \A r \in Req :
          (solved'[r].state = "threw" /\ solved[r].state # "threw") => cache' = cache
     /\ (\E k \in CacheKeys : LiveValue(cache', k, now') # LiveValue(cache, k, now))
          => \/ now' # now
             \/ \E r \in Req : /\ solved'[r].state = "returned"
                               /\ attempts'[r] # attempts[r]]_vars

C5_Witness ==
  \E r \in Req :
    /\ solved[r].state = "threw"
    /\ Len(attempts[r]) = Len(models)
    /\ getCacheKey(problem[r]) \notin DOMAIN cache

\* the outputs of the formatting of server.js and of part_003
NormalizedAnswers ==
  {FormatResult(c) : c \in Contents \ {Undefined}}
  \cup {FormatResultCheck(c) : c \in Contents \ {Undefined}}

\* C6: every solution stored in the cache is the output of the formatting
\* for some model answer, never the model's raw response.
C6_CacheHoldsNormalized ==
  \A k \in DOMAIN cache :
    cache[k].v # Undefined => cache[k].v \in NormalizedAnswers

\* C7: a call that finds only an expired entry for its key does not return
\* it and runs the backend chain.
C7_ExpiredIsAbsent ==
  \A r \in Req :
    (seen[r].looked /\ seen[r].present /\ ~seen[r].live)
      => /\ Contacted(r)
         /\ (solved[r].state = "returned" => ~Failed(attempts[r][Len(attempts[r])]))

C7_Witness ==
  \E r \in Req :
    /\ seen[r].present
    /\ ~seen[r].live
    /\ Truthy(seen[r].v)
    /\ pc[r] = "model"

\* C8: two texts have the same cache key exactly when they are equal after
\* lower-casing and trimming.
C8_KeyEquivalence ==
  keyPc = "derived"
    => ((keyA = keyB) <=> (Trim(ToLowerCase(textA)) = Trim(ToLowerCase(textB))))

C8_Witness ==
  /\ keyPc = "derived"
  /\ textA = <<" ", "A">>
  /\ textB = <<"a", " ">>
  /\ keyA = keyB

\* req.body.problem is absent, empty or only whitespace
Blank(p) == p = Undefined \/ Trim(p) = <<>>

\* C9: a request without image whose text is absent, empty or whitespace
\* is answered 400 'No problem provided' without a cache lookup, a solver
\* call or an OCR call, in server.js and in part_000.
C9_BlankRejected ==
  \A r \in Req :
    (/\ variant \in {"server", "part_000"}
     /\ pc[r] # "idle"
     /\ ~body[r].image
     /\ Blank(body[r].problem))
      => /\ pc[r] = "done"
         /\ resp[r].status = 400
         /\ resp[r].error = <<"No problem provided">>
         /\ ~seen[r].looked
         /\ ~Contacted(r)
         /\ ~ocrCalled[r]

\* the provider's answer is a transcription of at least the minimum length
Usable(o) ==
  /\ o.ok
  /\ o.content # Undefined
  /\ Len(Trim(o.content)) >= MinTextLength

\* C10: once the providers are asked, recognition fails only if every
\* provider in visionModels fails or answers a too-short transcription;
\* otherwise the result is the text of the first provider with a usable one.
C10_RecognitionFallsBack ==
  (vPc = "done" /\ vCalls # <<>> /\ \E i \in 1..Len(visionModels) : Usable(vPlan[i]))
    => LET first == CHOOSE i \in 1..Len(visionModels) :
                      /\ Usable(vPlan[i])
                      /\ \A j \in 1..(i - 1) : ~Usable(vPlan[j])
       IN /\ vResult.state = "returned"
          /\ vResult.text = CleanVisionText(Trim(vPlan[first].content))

\* every provider of the chain was asked and every one failed
AllProvidersFailed ==
  /\ vPc = "done"
  /\ Len(vCalls) = Len(visionModels)
  /\ \A i \in 1..Len(visionModels) : ~vPlan[i].ok

\* C11: when every provider in the vision chain has failed, the error
\* extractTextFromImageWithAI throws is the terminal all-providers error
\* with its typing guidance, whatever the last provider's own error was.
C11_TerminalErrorWhenAllFail ==
  AllProvidersFailed
    => /\ vResult.state = "threw"
       /\ vResult.error = AllVisionModelsUnavailable

IsPrefix(s, t) == Len(s) <= Len(t) /\ s = SubSeq(t, 1, Len(s))

\* the solver models request r has contacted, the call in flight included
SolverContacted(r) ==
  [i \in 1..Len(attempts[r]) |-> attempts[r][i].model]
  \o (IF pc[r] = "model" THEN <<models[modelIdx[r]]>> ELSE <<>>)

\* the providers the /solve request of part_004 has contacted
Contacted004 ==
  [i \in 1..Len(gAttempts) |-> gAttempts[i].provider]
  \o (IF gPc \in {"gpt", "wolfram", "newton"} THEN <<gPc>> ELSE <<>>)

\* C12: in each fallback chain (solver models, vision models, the solvers of
\* part_004) the providers contacted within one request are a prefix of the
\* list, in list order, and every contacted provider but the last one has
\* failed: none is contacted after a success and none is contacted twice.
C12_ChainOrder ==
  /\ \A r \in Req :
       /\ IsPrefix(SolverContacted(r), models)
       /\ \A i \in 1..(Len(SolverContacted(r)) - 1) : Failed(attempts[r][i])
  /\ IsPrefix(vCalls, visionModels)
  /\ \A i \in 1..(Len(vCalls) - 1) : ~vPlan[i].ok
  /\ IsPrefix(Contacted004, solvers004)
  /\ \A i \in 1..(Len(Contacted004) - 1) : gAttempts[i].result = "null"

C12_Witness ==
  /\ vPc = "done"
  /\ vCalls = <<visionModels[1], visionModels[2]>>
  /\ vPlan[1].status = 0
  /\ vPlan[2].ok
  /\ vPlan[3].ok
  /\ vResult.state = "returned"

\* the error extractTextFromImageWithAI throws for an image over the ceiling
ImageTooLarge ==
  visionCatch(Thrown(<<"Image too large. Please use an image smaller than 5MB.">>))

\* C13: in server.js an image of more than 5 MB is rejected before sharp is
\* started and before any recognition call is made, by
\* extractTextFromImageWithAI and by extractTextFromImage alike.
C13_LargeImageRejectedFirst ==
  /\ (vImage > ImageCeiling /\ vPc # "idle")
       => /\ vPc = "done"
          /\ vProcessed = 0
          /\ vCalls = <<>>
          /\ vResult.state = "threw"
          /\ vResult.error = ImageTooLarge
  /\ (variant = "server" /\ oImage > ImageCeiling /\ oPc # "idle")
       => /\ oPc = "done"
          /\ oStarted = <<>>
          /\ oResult.state = "threw"

\* the processed image is over one of the two transport ceilings
OverTransportCeiling(n) ==
  n > ProcessedCeiling \/ RoundKB(Base64Length(n)) > Base64CeilingKB

\* the errors extractTextFromImageWithAI throws for a failed provider, an
\* unreadable image or an unusable transcription
RecognitionErrors ==
  {visionCatch(AxiosError(o)) : o \in {x \in VisionOutcomes : ~x.ok}}
  \cup {visionCatch(Thrown(<<"Input buffer contains unsupported image format">>)),
        visionCatch(Thrown(<<"Cannot read properties of undefined">>)),
        visionCatch(Thrown(<<"No text detected in the image. Please ensure the image contains clear, readable math content.">>)),
        AllVisionModelsUnavailable}

\* C14: when the processed image is over a transport ceiling (more than
\* 3 MB, or more than 2500 KB as base64), extractTextFromImageWithAI throws
\* without asking any provider, and the error is neither the one for an
\* image over 5 MB nor one of the provider or recognition errors.
C14_TransportCeiling ==
  (vPc = "done" /\ vProcessed # 0 /\ OverTransportCeiling(vProcessed))
    => /\ vCalls = <<>>
       /\ usedModel = "null"
       /\ vResult.state = "threw"
       /\ vResult.error # ImageTooLarge
       /\ vResult.error \notin RecognitionErrors

C14_Witness ==
  /\ vPc = "done"
  /\ vProcessed = 2000000
  /\ vProcessed <= ProcessedCeiling
  /\ vResult.state = "threw"
  /\ vCalls = <<>>

\* C15: once text has been recognised, postProcessMathText followed by
\* refineMathTextWithAI never throws, and when the refinement call fails
\* (network error, timeout, status, reply without content) the result is
\* postProcessMathText of the recognised text; in server.js and part_003.
C15_CorrectNeverRaises ==
  (oPc = "done" /\ oPost # Undefined)
    => /\ oResult.state = "returned"
       /\ oAi = "failed" => oResult.text = postProcessMathText(variant, oRaw)

\* C16: every /api/solve request whose solver call is in flight eventually
\* completes with a response or an error, in server.js and in part_000: the
\* call returns or its timeout cuts it off.
C16_RequestCompletes ==
  \A r \in Req : (pc[r] = "model") ~> (pc[r] = "done")

\* C17: concurrent requests share no mutable state other than the solution
\* cache: no variable or file other than the cache is read or written by
\* two requests, or by a request and a background task.
C17_OnlyCacheShared ==
  \A a, b \in touched :
    (a.res = b.res /\ a.by # b.by) => a.res = CacheStore

\* C18: under any interleaving of getCachedSolution calls on one cache key
\* the entry of the key is either absent or exactly the solution one of the
\* calls produced, namely that of the call whose cache.set ran last, and
\* once every call has completed (and the entry has not outlived its TTL)
\* the entry is present with the solution of the last cache.set
C18_LastWriterWins ==
  /\ RaceKey \in DOMAIN cache =>
       /\ lastSet.by \in Callers
       /\ callResult[lastSet.by] = [state |-> "solved", value |-> lastSet.value]
       /\ cache[RaceKey].v = lastSet.value
  /\ ( /\ \A c \in Callers : callPc[c] = "done"
       /\ lastSet.by \in Callers
       /\ now <= lastSet.at + stdTTL )
     => /\ RaceKey \in DOMAIN cache
        /\ cache[RaceKey].v = callResult[lastSet.by].value

\* two calls missed the cache, both solvers resolved with different
\* solutions, and the entry holds the one stored last
C18_Witness ==
  /\ \A c \in Callers : callPc[c] = "done" /\ callResult[c].state = "solved"
  /\ \E c, d \in Callers : callResult[c].value # callResult[d].value
  /\ lastSet.by = 1
  /\ RaceKey \in DOMAIN cache
  /\ cache[RaceKey].v = callResult[1].value

\* C19: formatSolution is idempotent: applied to its own output it returns
\* that output unchanged (public/script.js)
C19_FormatIdempotent ==
  (client = "script.js" /\ fPc = "twice") => fTwice = fOnce

\* how many tokens of s are in the set toks
Count(s, toks) == Cardinality({k \in 1..Len(s) : s[k] \in toks})

\* some markup delimiter of s has no counterpart: the braces, the dollar
\* signs or the tags of some kind do not pair up
Unmatched(s) ==
  \/ Count(s, {"{"}) # Count(s, {"}"})
  \/ Count(s, {"$"}) % 2 # 0
  \/ \E closing \in ClosingTags :
       Count(s, {tag \in OpeningTags : ClosingOf(tag) = closing}) # Count(s, {closing})

\* C20: the output of formatSolution has no unmatched markup delimiter: when
\* every delimiter of the solution text has its counterpart, no lone "{",
\* "}", "$" or unclosed tag is left in the formatted text (public/script.js
\* and part_006)
C20_NoUnmatchedDelimiter ==
  (fPc \in {"once", "twice"} /\ ~Unmatched(fSolution)) => ~Unmatched(fOnce)

\* position i of s starts an exponent whose character the superscript map
\* of part_007 does not have: a base, "^" and a letter outside the map
UnmappedExponentAt(s, i) ==
  /\ i + 2 <= Len(s)
  /\ s[i] \in AlnumChars
  /\ s[i + 1] = "^"
  /\ s[i + 2] \in LetterChars \ DOMAIN superscriptMap007

\* C21: when formatSolution expands an exponent whose character the
\* superscript map does not have, the output keeps the literal "^" in front
\* of that character: the marker is not dropped (part_007)
C21_ExponentMarkerKept ==
  (client = "part_007" /\ fPc \in {"once", "twice"}) =>
    \A i \in 1..Len(fSolution) :
      UnmappedExponentAt(fSolution, i) =>
        \E k \in 1..(Len(fOnce) - 1) : fOnce[k] = "^" /\ fOnce[k + 1] = fSolution[i + 2]

\* C22: a successful answer of /api/ocr-preview carries the three stages of
\* one run: raw is the recognizer's transcription, cleaned is
\* postProcessMathText of it (corrected is the refinement of cleaned).
C22_PreviewStages ==
  \A r \in Uploaders :
    (uPc[r] = "done" /\ uEndpoint[r] = "preview" /\ uResp[r].status = 200) =>
      /\ uResp[r].raw = Trim(uRaw[r])
      /\ uResp[r].cleaned = uPost[r]

\* C29: once an image request of part_003 has completed, on any path, the
\* temporary file it wrote is gone from the uploads directory.
C29_TempFileDeleted ==
  \A r \in Uploaders :
    uPc[r] = "done" => ~(uPath[r] \in DOMAIN files /\ files[uPath[r]].owner = r)

\* C30: the bytes a request sends to the recognition model are its own, and
\* no request writes over or unlinks the temporary file of another request.
C30_OwnTempFile ==
  /\ \A r \in Uploaders : uSent[r] \in {0, r}
  /\ clobbered = {}

\* C23: an error response carries a message and never the raw response
\* payload of an upstream provider; here for GET /check of part_000.
C23_NoUpstreamPayload ==
  \A k \in Checkers :
    checkResp[k].status = 500 => ~IsUpstreamPayload(checkResp[k].error)

\* C24: the process has at most one OCR worker, created by the start-up
\* task and never by a request, and only the SIGTERM hook terminates it.
C24_OneWorkerPerProcess ==
  /\ Len(workers) <= 1
  /\ \A w \in 1..Len(workers) :
       /\ workers[w].createdBy = "initializeWorker"
       /\ workers[w].terminatedBy \in {"nobody", "SIGTERM"}

\* C26: in server.js every call of ocrWorker.recognize finds the worker
\* fully initialized and not terminating or terminated.
C26_RecognizeOnReadyWorker ==
  wVariant = "server" => \A c \in recognized : c.state = "configured"

Min(a, b) == IF a <= b THEN a ELSE b

Abs(a) == IF a >= 0 THEN a ELSE 0 - a

\* C25: a resize never enlarges: with M the maximum dimension of the call,
\* the output is at most min(w, M) wide and min(h, M) high, and has the
\* aspect ratio of the input up to the rounding of one dimension.
C25_NeverEnlarges ==
  zPc = "done" =>
    LET M == resizeOptions(zSite).width
    IN /\ zOut.width <= Min(zIn.width, M)
       /\ zOut.height <= Min(zIn.height, M)
       /\ 2 * Abs(zOut.width * zIn.height - zOut.height * zIn.width)
            <= zIn.width + zIn.height

\* initializeWorker() has failed
InitFailed == variant = "server" /\ workerInit = "done" /\ ~isWorkerReady

ImageOnly(b) == b.image /\ ~Truthy(b.problem)

\* C27: once initializeWorker has failed, isWorkerReady stays false; an
\* image-only request is answered 503 with no OCR, cache or solver call,
\* and a request with problem text gets to the solver as usual.
C27_FailedInitDisablesOcr ==
  /\ [][InitFailed => InitFailed']_vars
  /\ [](InitFailed =>
         \A r \in Req :
           /\ ImageOnly(body[r]) =>
                /\ pc[r] = "done"
                /\ resp[r].status = 503
                /\ ~ocrCalled[r]
                /\ ~seen[r].looked
                /\ attempts[r] = <<>>
                /\ solved[r].state = "none"
           /\ (pc[r] = "done" /\ ~ImageOnly(body[r])) =>
                /\ resp[r].status # 503
                /\ ~ocrCalled[r]
                /\ ~NoProblem(body[r].problem) =>
                     /\ seen[r].looked
                     /\ solved[r].state \in {"returned", "threw"}
                     /\ resp[r].status \in {200, 500})

C27_Witness ==
  /\ InitFailed
  /\ \E r \in Req :
       /\ pc[r] = "done"
       /\ ImageOnly(body[r])
       /\ resp[r].status = 503

\* C28: in server.js a request with non-empty problem text and an image is
\* solved from the text, without OCR, and the problem field of the answer
\* is the trimmed text that went to the solver.
C28_TextBeforeImage ==
  variant = "server" =>
    \A r \in Req :
      (body[r].image /\ Truthy(body[r].problem)) =>
        /\ ~ocrCalled[r]
        /\ pc[r] # "ocr"
        /\ seen[r].looked => problem[r] = Trim(body[r].problem)
        /\ resp[r].status = 200 =>
             /\ resp[r].problem = Trim(body[r].problem)
             /\ resp[r].problem = problem[r]

C28_Witness ==
  \E r \in Req :
    /\ pc[r] = "done"
    /\ body[r].image
    /\ body[r].problem = <<" ", "A">>
    /\ isWorkerReady
    /\ resp[r].status = 200
    /\ resp[r].problem = <<"A">>

InFlight == \E a \in Calls : bPc[a] # "idle"

\* C31: the solve button is disabled exactly while a solveProblem request
\* is in flight and the loader is shown meanwhile; when a call ends, by any
\* path, the button is enabled and the loader hidden, and the inputs are
\* left as they were unless the call ended in success.
C31_ButtonTracksRequest ==
  /\ [](/\ InFlight <=> bDisabled
        /\ InFlight => bLoader
        /\ (~InFlight /\ \E a \in Calls : bLast[a] \in RequestEnds) => ~bLoader)
  /\ [][\A a \in Calls :
          (bPc[a] # "idle" /\ bPc'[a] = "idle") =>
            /\ ~bDisabled'
            /\ ~bLoader'
            /\ bLast'[a] \in RequestEnds
            /\ bLast'[a] # "success" =>
                 (bProblem' = bProblem /\ bFile' = bFile /\ bPreview' = bPreview)]_vars

C31_Witness ==
  /\ ~InFlight
  /\ ~bDisabled
  /\ ~bLoader
  /\ bProblem = <<"a">>
  /\ bFile
  /\ bOutput = "error"
  /\ \E a \in Calls : bLast[a] = "notok"

====
